---- MODULE Spec2Model ----
(***************************************************************************)
(* Agent Watchdog dashboard: the client-side state-synchronisation layer.  *)
(*                                                                         *)
(* DashboardApp consumes the event stream through its lastEvent effect,    *)
(* keeps the refresh counter and the live violation buffer, and hands the  *)
(* counter to the fetch-driven views (home stats, InsightsDashboard,       *)
(* RequestList, ViolationsPanel).  RequestList derives its visible list    *)
(* from the fetched collection, the search box, the star set and the sort  *)
(* key.                                                                    *)
(*                                                                         *)
(* React runs an effect after the render that follows a state change, so   *)
(* a state change and the effect that reacts to it are separate steps.     *)
(***************************************************************************)
EXTENDS Integers, Sequences, FiniteSets, TLC

\* ------------------------------------------------------------- bounds ----
\* Inputs that can move the refresh counter (stream deliveries and
\* kill-switch callbacks together) explored by Spec, the whole dashboard.
MaxInputs == 2
\* Stream deliveries explored by SpecBuffer (the event path alone); more
\* than BufferCap, so that the buffer overflows.
MaxBufferEvents == 10
\* Chat exchanges explored by Spec.
MaxChats == 1
\* Retry is offered while RequestList has started fewer fetches than this.
MaxRetryFetches == 2
\* Length of the fetched collections explored by SpecList.
MaxListLen == 2
\* Length of the fetched samples explored by SpecInsights.
MaxSample == 3
\* Chat exchanges explored by SpecChat (the chat alone).
MaxChatExchanges == 2
\* Events delivered while the loads of the mounted views are followed.
MaxLoadEvents == 1
\* Events delivered while RequestList and its star set are followed.
MaxStarEvents == 1
\* ---------------------------------------------------- program constants --
\* [normalized, ...prev].slice(0, 8)
BufferCap == 8

\* ------------------------------------------------------ the event stream -
\* A field of data.violation that the payload does not carry.
Absent == "<absent>"
\* data.violation itself missing.
NoViolation == [type |-> Absent, description |-> Absent, severity |-> Absent,
                present |-> FALSE]
\* lastEvent before the first message: null.
NoEvent == [type |-> "<null>", violation |-> NoViolation]

\* The greeting DashboardApp.messages starts with.
Greeting ==
  [role |-> "assistant",
   text |-> <<"Agent Watchdog assistant is ready. Ask for stats, requests, violations, or blocked agents.">>]

\* useState<StatsData | null>(null)
NoStats == [present |-> FALSE, totalViolations |-> 0]

QualifyingTypes == {"request:processed", "killswitch:triggered"}
EventTypes == QualifyingTypes \cup {"violation:detected", "agent:heartbeat"}

\* Values a Partial<Violation> field takes on the wire: missing, the empty
\* string (falsy in the && chain) or a non-empty string.
IncomingTypes == {Absent, "", "POLICY_VIOLATION"}
IncomingDescriptions == {Absent, "blocked write"}
IncomingSeverities == {Absent, "LOW", "CRITICAL"}

Payloads ==
  {NoViolation} \cup
  [type : IncomingTypes, description : IncomingDescriptions,
   severity : IncomingSeverities, present : {TRUE}]

\* What the stream can deliver: only violation:detected is read for
\* data.violation.
StreamMessages ==
  [type : {"violation:detected"}, violation : Payloads] \cup
  [type : EventTypes \ {"violation:detected"}, violation : {NoViolation}]

\* The messages Spec explores: one of each type, the violation well-formed
\* (SpecBuffer explores the malformed ones).
DashboardMessages ==
  {m \in StreamMessages :
     \/ m.type # "violation:detected"
     \/ /\ m.violation.present
        /\ m.violation.type = "POLICY_VIOLATION"
        /\ m.violation.description = "blocked write"
        /\ m.violation.severity = "CRITICAL"}

\* ---------------------------------------------------------- the views ----
\* The views that fetch a backend summary and re-fetch on refreshTrigger.
Views == {"homeStats", "insights", "requests", "violationsPanel"}
Tabs == {"home", "requests", "audits", "violations", "control", "chat"}
\* Request ids the operator can star in Spec.
StarIds == {<<"r", "1">>, <<"r", "2">>}
\* seenTrigger of a view whose refresh effect has not run since it mounted.
NotRun == -1

VARIABLES
  lastEvent,           \* useWebSocket().lastEvent: the most recent event
  eventPending,        \* lastEvent changed since the lastEvent effect ran
  delivered,           \* number of events the stream has delivered
  refreshTrigger,      \* DashboardApp.refreshTrigger
  violations,          \* DashboardApp.violations: the live violation buffer
  ingested,            \* history: severities of the violations ingested
  qualifyingDelivered, \* history: request:processed / killswitch:triggered
                       \*          events delivered
  processed,           \* history: events the lastEvent effect has processed
  activeTab,           \* DashboardApp.activeTab
  seenTrigger,         \* per view: refreshTrigger at its last effect run
  inflight,            \* per view: the fetches started and not yet settled
  fetchSeq,            \* per view: number of fetches its instance started
  data,                \* per view: the fetch whose response it holds (0: none)
  loading,             \* per view: its loading flag
  error,               \* RequestList.error is non-null
  starredIds,          \* RequestList.starredIds
  chatLoading,         \* DashboardApp.chatLoading
  messages,            \* DashboardApp.messages
  chatLog,             \* history: the fetches the query router has made
  kills,               \* history: kill-switch callbacks so far
  requests,            \* RequestList.requests: the fetched collection
  search,              \* RequestList.search
  sortBy,              \* RequestList.sortBy
  showStarredOnly,     \* RequestList.showStarredOnly
  insightsStats,       \* InsightsDashboard.stats
  insightsViolations,  \* InsightsDashboard.violations: the fetched sample
  insightsRequests,    \* InsightsDashboard.requests: the fetched sample
  insightsRound,       \* history: the load round that completed last, if any
  started,             \* App.started: the dashboard has replaced the landing page
  textIndex,           \* App.textIndex
  display,             \* App.display: the text typed on the landing page
  isDeleting,          \* App.isDeleting
  typingTimer,         \* the timeout the typing effect has pending, if any
  typingEffectDue      \* the typing effect's dependencies changed since it ran

eventVars == <<lastEvent, eventPending, delivered, refreshTrigger, violations,
               ingested>>
historyVars == <<qualifyingDelivered, processed>>
fetchVars == <<seenTrigger, inflight, fetchSeq, data, loading, error>>
uiVars == <<activeTab, starredIds>>
chatVars == <<chatLoading, messages, chatLog>>
listVars == <<requests, search, sortBy, showStarredOnly>>
\* Everything of the dashboard but RequestList's controls and star set.
insightsVars == <<insightsStats, insightsViolations, insightsRequests, insightsRound>>
typingVars == <<started, textIndex, display, isDeleting, typingTimer, typingEffectDue>>
appVars == <<eventVars, historyVars, fetchVars, activeTab, chatVars, kills, insightsVars, typingVars>>
vars == <<eventVars, historyVars, fetchVars, uiVars, chatVars, kills, listVars, insightsVars, typingVars>>

\* ------------------------------------------------------- pure helpers ----
\* ---------------------------------------------------------- strings ------
\* Strings are sequences of one-character strings.
Letters ==
  <<"a", "b", "c", "d", "e", "f", "g", "h", "i", "j", "k", "l", "m", "n", "o", "p", "q", "r", "s", "t", "u", "v", "w", "x", "y", "z">>
Capitals ==
  <<"A", "B", "C", "D", "E", "F", "G", "H", "I", "J", "K", "L", "M", "N", "O", "P", "Q", "R", "S", "T", "U", "V", "W", "X", "Y", "Z">>
Digits == <<"0", "1", "2", "3", "4", "5", "6", "7", "8", "9">>

\* Position of c in seq, 0 when it does not occur.
IndexIn(c, seq) ==
  IF \E i \in 1..Len(seq) : seq[i] = c
  THEN CHOOSE i \in 1..Len(seq) : seq[i] = c
  ELSE 0

\* String.prototype.toLowerCase
ToLowerChar(c) ==
  IF IndexIn(c, Capitals) = 0 THEN c ELSE Letters[IndexIn(c, Capitals)]
ToLowerCase(str) == [i \in 1..Len(str) |-> ToLowerChar(str[i])]

\* String.prototype.trim
RECURSIVE TrimStart(_)
TrimStart(str) ==
  IF str # <<>> /\ Head(str) = " " THEN TrimStart(Tail(str)) ELSE str
RECURSIVE TrimEnd(_)
TrimEnd(str) ==
  IF str # <<>> /\ str[Len(str)] = " "
  THEN TrimEnd(SubSeq(str, 1, Len(str) - 1)) ELSE str
Trim(str) == TrimEnd(TrimStart(str))

\* String.prototype.includes
Includes(str, part) ==
  \E i \in 0..(Len(str) - Len(part)) : SubSeq(str, i + 1, i + Len(part)) = part

\* Mutant of Slice: slice(-n), which keeps the last n entries.
Slice_Tail(s, n) == SubSeq(s, IF Len(s) < n THEN 1 ELSE Len(s) - n + 1, Len(s))

\* Array.prototype.slice(0, n)
Slice(s, n) == SubSeq(s, 1, IF Len(s) < n THEN Len(s) ELSE n)

\* JavaScript truthiness of an optional string field.
Truthy(v) == v # Absent /\ v # ""

\* Mutant of WellFormed: the severity test left out.
WellFormed_NoSeverity(incoming) ==
  /\ incoming.present
  /\ Truthy(incoming.type)
  /\ Truthy(incoming.description)

\* incoming?.type && incoming.description && incoming.severity
WellFormed(incoming) ==
  /\ incoming.present
  /\ Truthy(incoming.type)
  /\ Truthy(incoming.description)
  /\ Truthy(incoming.severity)

\* The normalized Violation: id is a fresh token (the id-th one issued),
\* detectedAt the time of ingestion on a clock that ticks once per
\* ingestion.
Normalize(incoming, id, now) ==
  [id |-> id, type |-> incoming.type, description |-> incoming.description,
   severity |-> incoming.severity, detectedAt |-> now]

\* Mutant of Prepend: the new entry pushed at the tail.
Prepend_AtTail(prev, normalized) == Slice(prev \o <<normalized>>, BufferCap)

\* setViolations((prev) => [normalized, ...prev].slice(0, 8))
Prepend(prev, normalized) == Slice(<<normalized>> \o prev, BufferCap)

\* Mutant of IngestEvent: a violation event that is not well-formed evicts
\* the newest entry.
IngestEvent_MalformedEvicts(ev, prev, id, now) ==
  IF ev.type = "violation:detected" /\ WellFormed(ev.violation)
  THEN Prepend(prev, Normalize(ev.violation, id, now))
  ELSE IF ev.type = "violation:detected" THEN SubSeq(prev, 2, Len(prev))
  ELSE prev

\* The violations branch of the lastEvent effect.
IngestEvent(ev, prev, id, now) ==
  IF ev.type = "violation:detected" /\ WellFormed(ev.violation)
  THEN Prepend(prev, Normalize(ev.violation, id, now))
  ELSE prev

\* Mutant of RefreshAfterEvent: every event type counts.
RefreshAfterEvent_AnyType(ev, prev) == prev + 1

\* The refresh branch of the lastEvent effect.
RefreshAfterEvent(ev, prev) ==
  IF ev.type \in QualifyingTypes THEN prev + 1 ELSE prev

\* Which views the active tab renders; the home stats effect belongs to
\* DashboardApp itself.
Mounted(v, tab) ==
  \/ v = "homeStats"
  \/ v = "insights" /\ tab = "home"
  \/ v = "requests" /\ tab = "requests"
  \/ v = "violationsPanel" /\ tab = "violations"

\* A view's refresh effect is due: refreshTrigger differs from the value of
\* its last run (or it has not run since the mount).
EffectDue(v) == Mounted(v, activeTab) /\ seenTrigger[v] # refreshTrigger

\* -------------------------------------------------- the event actions ----
\* The stream client receives a message: it becomes lastEvent.  React runs
\* the lastEvent effect only after the next render, so a second message
\* may replace lastEvent before the effect has seen the first.
Deliver(msg, max) ==
  /\ delivered < max
  /\ lastEvent' = msg
  /\ eventPending' = TRUE
  /\ delivered' = delivered + 1
  /\ UNCHANGED <<refreshTrigger, violations, ingested>>

\* useEffect(() => {...}, [lastEvent]): runs once for the lastEvent value of
\* the render, when it differs from the value of the previous run.
EventEffect ==
  /\ eventPending
  /\ lastEvent # NoEvent
  /\ eventPending' = FALSE
  /\ refreshTrigger' = RefreshAfterEvent(lastEvent, refreshTrigger)
  /\ violations' = IngestEvent(lastEvent, violations, Len(ingested) + 1,
                               Len(ingested) + 1)
  /\ ingested' =
       IF lastEvent.type = "violation:detected" /\ WellFormed(lastEvent.violation)
       THEN Append(ingested, lastEvent.violation.severity)
       ELSE ingested
  /\ UNCHANGED <<lastEvent, delivered>>

\* ------------------------------------------------------------- Init ------
\* No timeout pending.
NoTimer == [kind |-> "none", nextValue |-> <<>>]

\* The state DashboardApp and its views are constructed with.
DashboardState(tab) ==
  /\ lastEvent = NoEvent
  /\ eventPending = FALSE
  /\ delivered = 0
  /\ refreshTrigger = 0
  /\ violations = <<>>
  /\ ingested = <<>>
  /\ qualifyingDelivered = 0
  /\ processed = 0
  /\ activeTab = tab
  /\ seenTrigger = [v \in Views |-> NotRun]
  /\ inflight = [v \in Views |-> {}]
  /\ fetchSeq = [v \in Views |-> 0]
  /\ data = [v \in Views |-> 0]
  /\ loading = [v \in Views |-> TRUE]
  /\ error = FALSE
  /\ starredIds = {}
  /\ chatLoading = FALSE
  /\ messages = <<Greeting>>
  /\ chatLog = <<>>
  /\ kills = 0
  /\ insightsStats = NoStats
  /\ insightsViolations = <<>>
  /\ insightsRequests = <<>>
  /\ insightsRound = <<>>

\* DashboardApp has rendered once with the given tab; no effect has run yet.
\* The operator has pressed the start button of the landing page right away.
InitApp(tab) ==
  /\ started = TRUE
  /\ textIndex = 0
  /\ display = <<>>
  /\ isDeleting = FALSE
  /\ typingTimer = NoTimer
  /\ typingEffectDue = FALSE
  /\ DashboardState(tab)

\* The dashboard opens on the home tab.
Init ==
  /\ InitApp("home")
  /\ requests = <<>>
  /\ search = <<>>
  /\ sortBy = "newest"
  /\ showStarredOnly = FALSE

\* --------------------------------------------- SpecBuffer: the event path -
\* The event path of DashboardApp alone: the stream and the lastEvent
\* effect, with every other part of the dashboard left as constructed.
DeliverB ==
  /\ \E msg \in StreamMessages : Deliver(msg, MaxBufferEvents)
  /\ UNCHANGED <<historyVars, fetchVars, uiVars, chatVars, kills, listVars, insightsVars, typingVars>>

RunEventEffectB ==
  /\ EventEffect
  /\ UNCHANGED <<historyVars, fetchVars, uiVars, chatVars, kills, listVars, insightsVars, typingVars>>

NextBuffer == DeliverB \/ RunEventEffectB

SpecBuffer == Init /\ [][NextBuffer]_vars

\* ------------------------------------------- Spec: the whole dashboard ---
DeliverD ==
  /\ \E msg \in DashboardMessages :
       /\ Deliver(msg, MaxInputs - kills)
       /\ qualifyingDelivered' =
            IF msg.type \in QualifyingTypes THEN qualifyingDelivered + 1
            ELSE qualifyingDelivered
  /\ UNCHANGED <<processed, fetchVars, uiVars, chatVars, kills, listVars, insightsVars, typingVars>>

\* Mutant of RunEventEffect: processing an event also discards what the
\* views have fetched.
RunEventEffect_DropsFetched ==
  /\ \A v \in Views : ~EffectDue(v)
  /\ EventEffect
  /\ processed' = processed + 1
  /\ data' = [v \in Views |-> 0]
  /\ UNCHANGED <<qualifyingDelivered, seenTrigger, inflight, fetchSeq, loading, error,
                 uiVars, chatVars, kills, listVars, insightsVars, typingVars>>

\* The commit that runs the lastEvent effect has first run the refresh
\* effects of the views it rendered (children before parents), so no
\* refresh effect is due when the lastEvent effect updates the counter.
RunEventEffect ==
  /\ \A v \in Views : ~EffectDue(v)
  /\ EventEffect
  /\ processed' = processed + 1
  /\ UNCHANGED <<qualifyingDelivered, fetchVars, uiVars, chatVars, kills, listVars, insightsVars, typingVars>>

\* Mutant of LoadingAtStart: RequestList shows its spinner on a re-fetch too.
LoadingAtStart_Always(v, prev) == TRUE

\* setLoading(true) at the start of the refresh effect: home stats,
\* InsightsDashboard and ViolationsPanel do, RequestList does not.
LoadingAtStart(v, prev) == IF v = "requests" THEN prev ELSE TRUE

\* useEffect(() => {...fetch...}, [refreshTrigger]) of every mounted view
\* whose refreshTrigger changed (or that has just mounted): each starts one
\* fetch.
RefreshEffects ==
  /\ \E v \in Views : EffectDue(v)
  /\ seenTrigger' = [v \in Views |->
       IF EffectDue(v) THEN refreshTrigger ELSE seenTrigger[v]]
  /\ fetchSeq' = [v \in Views |->
       IF EffectDue(v) THEN fetchSeq[v] + 1 ELSE fetchSeq[v]]
  /\ inflight' = [v \in Views |->
       IF EffectDue(v) THEN inflight[v] \cup {fetchSeq[v] + 1} ELSE inflight[v]]
  /\ loading' = [v \in Views |->
       IF EffectDue(v) THEN LoadingAtStart(v, loading[v]) ELSE loading[v]]
  /\ UNCHANGED <<eventVars, historyVars, data, error, uiVars, chatVars, kills, listVars, insightsVars, typingVars>>

\* handleKillSwitch: the KillSwitch panel of the control tab reports a
\* kill-switch action of the operator.
HandleKillSwitch ==
  /\ activeTab = "control"
  /\ delivered + kills < MaxInputs
  /\ kills' = kills + 1
  /\ refreshTrigger' = refreshTrigger + 1
  /\ UNCHANGED <<lastEvent, eventPending, delivered, violations, ingested,
                 historyVars, fetchVars, uiVars, chatVars, listVars, insightsVars, typingVars>>

\* setActiveTab(tab.key).  A view that leaves the screen is unmounted: React
\* discards its state, and a fetch it started can no longer change
\* anything.  A view that enters is constructed afresh; its refresh effect
\* is due.
SetActiveTab(tab) ==
  /\ tab # activeTab
  /\ activeTab' = tab
  /\ seenTrigger' = [v \in Views |->
       IF Mounted(v, tab) /\ Mounted(v, activeTab) THEN seenTrigger[v] ELSE NotRun]
  /\ inflight' = [v \in Views |->
       IF Mounted(v, tab) /\ Mounted(v, activeTab) THEN inflight[v] ELSE {}]
  /\ fetchSeq' = [v \in Views |->
       IF Mounted(v, tab) /\ Mounted(v, activeTab) THEN fetchSeq[v] ELSE 0]
  /\ data' = [v \in Views |->
       IF Mounted(v, tab) /\ Mounted(v, activeTab) THEN data[v] ELSE 0]
  /\ loading' = [v \in Views |->
       IF Mounted(v, tab) /\ Mounted(v, activeTab) THEN loading[v] ELSE TRUE]
  /\ error' = (error /\ Mounted("requests", tab) /\ Mounted("requests", activeTab))
  /\ starredIds' =
       IF Mounted("requests", tab) /\ Mounted("requests", activeTab)
       THEN starredIds ELSE {}
  /\ UNCHANGED <<eventVars, historyVars, chatVars, kills, listVars, insightsVars, typingVars>>

\* The data a view holds after a fetch settles: the response on success,
\* what it held before on failure.  No view compares the settled fetch with
\* the latest one it started.
DataAfter(v, id, ok) == IF ok THEN id ELSE data[v]

\* Mutant of ErrorAfter: a successful fetch does not clear the error.
ErrorAfter_Sticky(v, ok) == IF v = "requests" THEN (error \/ ~ok) ELSE error

\* RequestList.error after a fetch settles: setError(null) on success,
\* setError(message) in the catch.
ErrorAfter(v, ok) == IF v = "requests" THEN ~ok ELSE error

\* A fetch of a mounted view settles: the response is ok, or the fetch
\* failed (non-ok status or network error).  InsightsDashboard awaits its
\* three fetches together and applies them together.
FetchSettle(v, id, ok) ==
  /\ id \in inflight[v]
  /\ inflight' = [inflight EXCEPT ![v] = @ \ {id}]
  /\ data' = [data EXCEPT ![v] = DataAfter(v, id, ok)]
  /\ error' = ErrorAfter(v, ok)
  /\ loading' = [loading EXCEPT ![v] = FALSE]
  /\ UNCHANGED <<eventVars, historyVars, seenTrigger, fetchSeq, uiVars,
                 chatVars, kills, listVars, insightsVars, typingVars>>

\* The Retry button of RequestList's error rendering: onClick={fetchRequests}.
Retry ==
  /\ Mounted("requests", activeTab)
  /\ ~loading["requests"]
  /\ error
  /\ fetchSeq["requests"] < MaxRetryFetches
  /\ fetchSeq' = [fetchSeq EXCEPT !["requests"] = @ + 1]
  /\ inflight' = [inflight EXCEPT !["requests"] = @ \cup {fetchSeq["requests"] + 1}]
  /\ UNCHANGED <<eventVars, historyVars, seenTrigger, data, loading, error,
                 uiVars, chatVars, kills, listVars, insightsVars, typingVars>>

\* What RequestList renders: the spinner while loading, else the error box
\* with its Retry button when error is set, else the empty notice or the
\* list.
RequestListRenders(isLoading, hasError, held) ==
  IF isLoading THEN "spinner"
  ELSE IF hasError THEN "error and Retry"
  ELSE IF held = 0 THEN "empty"
  ELSE "data"

\* What InsightsDashboard renders: the loading notice while loading or
\* without stats, else the charts of what it holds.  Its catch block logs
\* the error and sets no state.
InsightsRenders(isLoading, held) ==
  IF isLoading \/ held = 0 THEN "loading" ELSE "data"

\* Mutant of Toggled: starring an id drops the other stars.
Toggled_Single(prev, requestId) ==
  IF requestId \in prev THEN prev \ {requestId} ELSE {requestId}

\* setStarredIds((prev) => ...): delete the id when present, add it
\* otherwise.
Toggled(prev, requestId) ==
  IF requestId \in prev THEN prev \ {requestId} ELSE prev \cup {requestId}

\* toggleStar(request.id), from the star button of a listed request.
ToggleStar(requestId) ==
  /\ Mounted("requests", activeTab)
  /\ ~loading["requests"]
  /\ ~error
  /\ data["requests"] # 0
  /\ starredIds' = Toggled(starredIds, requestId)
  /\ UNCHANGED <<eventVars, historyVars, fetchVars, activeTab, chatVars, kills, listVars, insightsVars, typingVars>>

\* ------------------------------------------------------------ chat ------
\* A text is a sequence of pieces: an input is the sequence of its
\* characters, a reply the sequence of the parts its template joins.

\* Mutant of Route: no fallback, an input without keyword asks for stats.
Route_NoFallback(query) ==
  IF Includes(query, <<"b", "l", "o", "c", "k", "e", "d">>) \/ Includes(query, <<"k", "i", "l", "l">>) THEN "agents"
  ELSE IF Includes(query, <<"r", "e", "q", "u", "e", "s", "t">>) /\ ~Includes(query, <<"s", "t", "a", "t">>) THEN "requests"
  ELSE IF Includes(query, <<"v", "i", "o", "l", "a", "t", "i", "o", "n">>) /\ ~Includes(query, <<"s", "t", "a", "t">>) THEN "violations"
  ELSE "stats"

\* Mutant of Route: 'request' tested before 'stat'.
Route_RequestFirst(query) ==
  IF Includes(query, <<"r", "e", "q", "u", "e", "s", "t">>) THEN "requests"
  ELSE IF Includes(query, <<"s", "t", "a", "t">>) THEN "stats"
  ELSE IF Includes(query, <<"b", "l", "o", "c", "k", "e", "d">>) \/ Includes(query, <<"k", "i", "l", "l">>) THEN "agents"
  ELSE IF Includes(query, <<"v", "i", "o", "l", "a", "t", "i", "o", "n">>) THEN "violations"
  ELSE "help"

\* generateAssistantReply: the chain of query.includes(...) tests.
Route(query) ==
  IF Includes(query, <<"s", "t", "a", "t">>) THEN "stats"
  ELSE IF Includes(query, <<"b", "l", "o", "c", "k", "e", "d">>) \/ Includes(query, <<"k", "i", "l", "l">>) THEN "agents"
  ELSE IF Includes(query, <<"r", "e", "q", "u", "e", "s", "t">>) THEN "requests"
  ELSE IF Includes(query, <<"v", "i", "o", "l", "a", "t", "i", "o", "n">>) THEN "violations"
  ELSE "help"

\* The URL each branch fetches.
Endpoint(route) ==
  CASE route = "stats" -> "/api/audit/stats/summary"
    [] route = "agents" -> "/api/agents"
    [] route = "requests" -> "/api/requests?limit=5"
    [] route = "violations" -> "/api/audit/violations/all?limit=5"

\* The message of the Error each branch throws on a response that is not ok.
UnableToFetch(route) ==
  CASE route = "stats" -> "Unable to fetch stats"
    [] route = "agents" -> "Unable to fetch agents"
    [] route = "requests" -> "Unable to fetch requests"
    [] route = "violations" -> "Unable to fetch violations"

\* items.join(separator), each item a sequence of pieces.
RECURSIVE Join(_, _)
Join(items, separator) ==
  IF items = <<>> THEN <<>>
  ELSE IF Len(items) = 1 THEN items[1]
  ELSE items[1] \o <<separator>> \o Join(Tail(items), separator)

\* `Stats snapshot: total=${...}, approved=${...}, ...`
StatsReply(stats) ==
  <<"Stats snapshot: total=", ToString(stats.totalRequests),
    ", approved=", ToString(stats.approvedRequests),
    ", flagged=", ToString(stats.flaggedRequests),
    ", killed=", ToString(stats.killedRequests),
    ", blockedAgents=", ToString(stats.blockedAgents), ".">>

\* Mutant of BlockedReply: the count is that of all agents fetched.
BlockedReply_CountsAll(agents) ==
  LET NotActive(agent) == ~agent.isActive
      blocked == SelectSeq(agents, NotActive)
  IN IF Len(blocked) = 0 THEN <<"No blocked agents right now.">>
     ELSE <<"Blocked agents (", ToString(Len(agents)), "): ">>
            \o Join([i \in 1..Len(blocked) |-> <<blocked[i].agentId>>], ", ")
            \o <<".">>

\* data.agents.filter((agent) => !agent.isActive) and the reply built of it
BlockedReply(agents) ==
  LET NotActive(agent) == ~agent.isActive
      blocked == SelectSeq(agents, NotActive)
  IN IF Len(blocked) = 0 THEN <<"No blocked agents right now.">>
     ELSE <<"Blocked agents (", ToString(Len(blocked)), "): ">>
            \o Join([i \in 1..Len(blocked) |-> <<blocked[i].agentId>>], ", ")
            \o <<".">>

\* `${request.agentId}:${request.action}:${request.decision ?? 'PENDING'}`
RequestSummary(request) ==
  <<request.agentId, ":", request.action, ":",
    IF request.decision = Absent THEN "PENDING" ELSE request.decision>>
RequestsReply(list) ==
  IF Len(list) = 0 THEN <<"No requests found yet.">>
  ELSE <<"Recent requests: ">>
         \o Join([i \in 1..Len(list) |-> RequestSummary(list[i])], " | ")
         \o <<".">>

\* `${violation.type} (${violation.severity})`
ViolationSummary(violation) == <<violation.type, " (", violation.severity, ")">>
ViolationsReply(list) ==
  IF Len(list) = 0 THEN <<"No violations found.">>
  ELSE <<"Recent violations: ">>
         \o Join([i \in 1..Len(list) |-> ViolationSummary(list[i])], ", ")
         \o <<".">>

HelpReply ==
  <<"Try asking: \"stats\", \"recent requests\", \"violations\", or \"blocked agents\".">>

\* generateAssistantReply(input) once its fetch, if any, has settled with
\* the given response: the text it returns or the message of what it throws.
GenerateAssistantReply(input, response) ==
  LET route == Route(ToLowerCase(input))
  IN IF route = "help" THEN [threw |-> FALSE, text |-> HelpReply]
     ELSE IF response.failed THEN [threw |-> TRUE, text |-> <<"Failed to fetch">>]
     ELSE IF ~response.ok THEN [threw |-> TRUE, text |-> <<UnableToFetch(route)>>]
     ELSE [threw |-> FALSE,
           text |-> CASE route = "stats" -> StatsReply(response.body)
                      [] route = "agents" -> BlockedReply(response.body)
                      [] route = "requests" -> RequestsReply(response.body)
                      [] route = "violations" -> ViolationsReply(response.body)]

\* botMsg of the try block or of the catch block.
BotMessage(result) ==
  [role |-> "assistant",
   text |-> IF result.threw THEN <<"Chatbot error: ">> \o result.text ELSE result.text]

\* Mutant of WithUserMessage: the user's message is not recorded.
WithUserMessage_Dropped(prev, input) == prev

\* setMessages((prev) => [...prev, userMsg])
WithUserMessage(prev, input) == Append(prev, [role |-> "user", text |-> input])

\* Mutant of LoadingAfterReply: setChatLoading(false) in the try block only.
LoadingAfterReply_NoFinally(result) == result.threw

\* finally { setChatLoading(false) }
LoadingAfterReply(result) == FALSE

\* The input of the exchange in flight.
PendingInput == messages[Len(messages)].text

\* Mutant of Accepts: the guard does not look at chatLoading.
Accepts_WhileLoading(input, isLoading) == input # <<>>

\* if (!input || chatLoading) return
Accepts(input, isLoading) == input # <<>> /\ ~isLoading

\* sendMessage with the given chatInput (Enter in the input box, or the
\* Send button): nothing changes when the trimmed input is empty or an
\* exchange is in flight; otherwise the user's message is appended, the
\* router is called (and starts its fetch, if any) and the reply is awaited.
SendMessage(chatInput, max) ==
  LET input == Trim(chatInput)
      route == Route(ToLowerCase(input))
  IN /\ activeTab = "chat"
     /\ Len(messages) < 1 + 2 * max
     /\ IF Accepts(input, chatLoading)
        THEN /\ messages' = WithUserMessage(messages, input)
             /\ chatLoading' = TRUE
             /\ chatLog' = IF route = "help" THEN chatLog
                           ELSE Append(chatLog, [endpoint |-> Endpoint(route), settled |-> FALSE,
                                                 response |-> FALSE])
        ELSE UNCHANGED chatVars
     /\ UNCHANGED <<eventVars, historyVars, fetchVars, uiVars, kills, listVars, insightsVars, typingVars>>

\* generateAssistantReply resolves or throws: the reply or the error message
\* is appended; finally setChatLoading(false).
ChatSettle(response) ==
  LET result == GenerateAssistantReply(PendingInput, response)
  IN /\ chatLoading
     /\ messages' = Append(messages, BotMessage(result))
     /\ chatLoading' = LoadingAfterReply(result)
     /\ chatLog' = IF Route(ToLowerCase(PendingInput)) = "help" THEN chatLog
                   ELSE [chatLog EXCEPT ![Len(chatLog)] =
                           [endpoint |-> @.endpoint, settled |-> TRUE,
                            response |-> response]]
     /\ UNCHANGED <<eventVars, historyVars, fetchVars, uiVars, kills, listVars, insightsVars, typingVars>>

\* A response: the fetch rejected (failed), or resolved ok or not ok.
ResponsesOf(bodies, blank) ==
  {[failed |-> FALSE, ok |-> TRUE, body |-> body] : body \in bodies}
  \cup {[failed |-> FALSE, ok |-> FALSE, body |-> blank],
        [failed |-> TRUE, ok |-> FALSE, body |-> blank]}

StatsBody ==
  [totalRequests |-> 3, approvedRequests |-> 1, flaggedRequests |-> 1,
   killedRequests |-> 1, blockedAgents |-> 0]
\* What Spec's operator asks, and the answers of /api/audit/stats/summary.
DashboardInputs == {<<"s", "t", "a", "t", "s">>}
DashboardChatResponses ==
  {[failed |-> FALSE, ok |-> TRUE, body |-> StatsBody],
   [failed |-> FALSE, ok |-> FALSE, body |-> StatsBody]}

Next ==
  \/ DeliverD
  \/ RunEventEffect
  \/ RefreshEffects
  \/ HandleKillSwitch
  \/ \E tab \in Tabs : SetActiveTab(tab)
  \/ \E v \in Views, id \in 1..(MaxInputs + MaxRetryFetches + 1),
        ok \in BOOLEAN : FetchSettle(v, id, ok)
  \/ Retry
  \/ \E requestId \in StarIds : ToggleStar(requestId)
  \/ \E chatInput \in DashboardInputs : SendMessage(chatInput, MaxChats)
  \/ \E response \in DashboardChatResponses : ChatSettle(response)

Spec == Init /\ [][Next]_vars

\* ------------------------------- SpecLoading: the loads of mounted views ---
\* The dashboard stays on one tab, so that its views stay mounted; React
\* runs every effect that is due, and every fetch resolves or rejects.
InitLoading ==
  /\ \E tab \in {"home", "requests", "violations"} : InitApp(tab)
  /\ requests = <<>>
  /\ search = <<>>
  /\ sortBy = "newest"
  /\ showStarredOnly = FALSE

DeliverL ==
  /\ \E msg \in DashboardMessages :
       /\ Deliver(msg, MaxLoadEvents)
       /\ qualifyingDelivered' =
            IF msg.type \in QualifyingTypes THEN qualifyingDelivered + 1
            ELSE qualifyingDelivered
  /\ UNCHANGED <<processed, fetchVars, uiVars, chatVars, kills, listVars, insightsVars, typingVars>>

NextLoading ==
  \/ DeliverL
  \/ RunEventEffect
  \/ RefreshEffects
  \/ \E v \in Views, id \in 1..(MaxInputs + MaxRetryFetches + 1), ok \in BOOLEAN :
       FetchSettle(v, id, ok)
  \/ Retry

SpecLoading ==
  /\ InitLoading
  /\ [][NextLoading]_vars
  /\ WF_vars(RunEventEffect)
  /\ WF_vars(RefreshEffects)
  /\ \A v \in Views : \A id \in 1..(MaxInputs + MaxRetryFetches + 1) :
       WF_vars(\E ok \in BOOLEAN : FetchSettle(v, id, ok))


\* ------------------------------------------- RequestList: visible list ---
\* String.prototype.localeCompare, for the letters, digits and blanks of
\* the model: letters after digits after blanks, compared without case
\* first; between strings equal up to case, lower case first.
PrimaryRank(c) ==
  IF IndexIn(c, Digits) > 0 THEN IndexIn(c, Digits)
  ELSE IF IndexIn(ToLowerChar(c), Letters) > 0
       THEN 10 + IndexIn(ToLowerChar(c), Letters)
       ELSE 0
CaseRank(c) == IF IndexIn(c, Capitals) > 0 THEN 1 ELSE 0
RECURSIVE LexCompare(_, _)
LexCompare(a, b) ==
  IF a = <<>> /\ b = <<>> THEN 0
  ELSE IF a = <<>> THEN -1
  ELSE IF b = <<>> THEN 1
  ELSE IF Head(a) < Head(b) THEN -1
  ELSE IF Head(a) > Head(b) THEN 1
  ELSE LexCompare(Tail(a), Tail(b))
LocaleCompare(a, b) ==
  LET primary == LexCompare([i \in 1..Len(a) |-> PrimaryRank(a[i])],
                            [i \in 1..Len(b) |-> PrimaryRank(b[i])])
  IN IF primary # 0 THEN primary
     ELSE LexCompare([i \in 1..Len(a) |-> CaseRank(a[i])],
                     [i \in 1..Len(b) |-> CaseRank(b[i])])

\* new Date(createdAt).getTime(), for the timestamps of the model.
GetTime(createdAt) ==
  CASE createdAt = "2026-01-01T00:00:01Z" -> 1
    [] createdAt = "2026-01-01T00:00:02Z" -> 2
    [] createdAt = "2026-01-01T00:00:03Z" -> 3

\* request.decision when the backend sent none.
Undefined == <<"undefined">>
\* (request.decision || '')
OrEmpty(decision) == IF decision = Undefined THEN <<>> ELSE decision

\* The requests the backend can return in SpecList.
R1 ==
  [id |-> <<"r", "1">>, agentId |-> <<"a", "1">>, action |-> <<"r", "e", "a", "d">>,
   target |-> <<"d", "b">>, status |-> <<"p", "e", "n", "d", "i", "n", "g">>,
   decision |-> Undefined, createdAt |-> "2026-01-01T00:00:01Z"]
R2 ==
  [id |-> <<"r", "2">>, agentId |-> <<"a", "2">>, action |-> <<"w", "r", "i", "t", "e">>,
   target |-> <<"f", "s">>, status |-> <<"a", "p", "p", "r", "o", "v", "e", "d">>,
   decision |-> <<"A", "P", "P", "R", "O", "V", "E">>, createdAt |-> "2026-01-01T00:00:02Z"]
R3 ==
  [id |-> <<"R", "3">>, agentId |-> <<"A", "2">>, action |-> <<"r", "e", "a", "d">>,
   target |-> <<"m", "y", " ", "d", "b">>, status |-> <<"k", "i", "l", "l", "e", "d">>,
   decision |-> <<"K", "I", "L", "L">>, createdAt |-> "2026-01-01T00:00:02Z"]
R4 ==
  [id |-> <<"r", "4">>, agentId |-> <<"a", "1">>, action |-> <<"e", "x", "e", "c">>,
   target |-> <<"f", "s">>, status |-> <<"p", "e", "n", "d", "i", "n", "g">>,
   decision |-> Undefined, createdAt |-> "2026-01-01T00:00:03Z"]
RequestPool == {R1, R2, R3, R4}

\* Fetched collections: request ids are unique.
Collections ==
  {c \in UNION {[1..n -> RequestPool] : n \in 0..MaxListLen} :
     \A i, j \in 1..Len(c) : i # j => c[i].id # c[j].id}

\* What the operator types into the search box in SpecList.
Searches ==
  {<<>>, <<"a", "2">>, <<" ", "A", "2", " ">>, <<" ", " ", " ">>,
   <<"p", "e", "n", "d">>, <<"A", "P", "P", "R", "O", "V", "E">>, <<"Y", " ", "D">>, <<"z", "z">>}

SortKeys == {"newest", "oldest", "agent", "status"}

\* Mutant of MatchesSearch: the fields compared without toLowerCase().
MatchesSearch_CaseSensitive(request, query) ==
  \/ Len(query) = 0
  \/ Includes(request.id, query)
  \/ Includes(request.agentId, query)
  \/ Includes(request.action, query)
  \/ Includes(request.target, query)
  \/ Includes(request.status, query)
  \/ Includes(OrEmpty(request.decision), query)

\* matchesSearch of the filter callback
MatchesSearch(request, query) ==
  \/ Len(query) = 0
  \/ Includes(ToLowerCase(request.id), query)
  \/ Includes(ToLowerCase(request.agentId), query)
  \/ Includes(ToLowerCase(request.action), query)
  \/ Includes(ToLowerCase(request.target), query)
  \/ Includes(ToLowerCase(request.status), query)
  \/ Includes(ToLowerCase(OrEmpty(request.decision)), query)

\* matchesStarred of the filter callback
MatchesStarred(request, starredOnly, starred) ==
  ~starredOnly \/ request.id \in starred

\* Mutant of Compare: the two star tests left out.
Compare_NoPin(a, b, key, starred) ==
  IF key = "newest" THEN GetTime(b.createdAt) - GetTime(a.createdAt)
  ELSE IF key = "oldest" THEN GetTime(a.createdAt) - GetTime(b.createdAt)
  ELSE IF key = "agent" THEN LocaleCompare(a.agentId, b.agentId)
  ELSE LocaleCompare(a.status, b.status)

\* The comparator handed to sort: negative when a goes first.
Compare(a, b, key, starred) ==
  IF a.id \in starred /\ b.id \notin starred THEN -1
  ELSE IF a.id \notin starred /\ b.id \in starred THEN 1
  ELSE IF key = "newest" THEN GetTime(b.createdAt) - GetTime(a.createdAt)
  ELSE IF key = "oldest" THEN GetTime(a.createdAt) - GetTime(b.createdAt)
  ELSE IF key = "agent" THEN LocaleCompare(a.agentId, b.agentId)
  ELSE LocaleCompare(a.status, b.status)

\* Mutant of InsertSorted: an element goes before the elements equal to it.
InsertSorted_Unstable(sorted, x, key, starred) ==
  LET before == {j \in 1..Len(sorted) : Compare(sorted[j], x, key, starred) < 0}
      at == IF before = {} THEN 0
            ELSE CHOOSE j \in before : \A k \in before : k <= j
  IN SubSeq(sorted, 1, at) \o <<x>> \o SubSeq(sorted, at + 1, Len(sorted))

\* Array.prototype.sort is stable: an element goes after the last element
\* that does not compare greater than it.
InsertSorted(sorted, x, key, starred) ==
  LET notAfter == {j \in 1..Len(sorted) : Compare(sorted[j], x, key, starred) <= 0}
      at == IF notAfter = {} THEN 0
            ELSE CHOOSE j \in notAfter : \A k \in notAfter : k <= j
  IN SubSeq(sorted, 1, at) \o <<x>> \o SubSeq(sorted, at + 1, Len(sorted))
RECURSIVE SortRequests(_, _, _)
SortRequests(list, key, starred) ==
  IF list = <<>> THEN <<>>
  ELSE InsertSorted(SortRequests(SubSeq(list, 1, Len(list) - 1), key, starred),
                    list[Len(list)], key, starred)

\* visibleRequests = useMemo(...)
VisibleRequests(reqs, srch, starredOnly, key, starred) ==
  LET query == ToLowerCase(Trim(srch))
      Keep(request) == /\ MatchesSearch(request, query)
                       /\ MatchesStarred(request, starredOnly, starred)
  IN SortRequests(SelectSeq(reqs, Keep), key, starred)

visible == VisibleRequests(requests, search, showStarredOnly, sortBy, starredIds)

\* ------------------------------------------ SpecList: RequestList alone ---
\* RequestList on screen with its fetch machinery left out: the collection
\* is replaced by whatever the backend returns.
InitList ==
  /\ InitApp("requests")
  /\ requests \in Collections
  /\ search = <<>>
  /\ sortBy = "newest"
  /\ showStarredOnly = FALSE

\* setRequests(data.requests)
SetRequests(collection) ==
  /\ requests' = collection
  /\ UNCHANGED <<search, sortBy, showStarredOnly, starredIds, appVars>>

\* onChange of the search box: setSearch(event.target.value)
SetSearch(value) ==
  /\ search' = value
  /\ UNCHANGED <<requests, sortBy, showStarredOnly, starredIds, appVars>>

\* onChange of the sort select: setSortBy(event.target.value)
SetSortBy(key) ==
  /\ sortBy' = key
  /\ UNCHANGED <<requests, search, showStarredOnly, starredIds, appVars>>

\* The Starred button: setShowStarredOnly((prev) => !prev)
ToggleStarredOnly ==
  /\ showStarredOnly' = ~showStarredOnly
  /\ UNCHANGED <<requests, search, sortBy, starredIds, appVars>>

\* The star button of a listed request.
ToggleListedStar(i) ==
  LET shown == visible IN
  /\ i \in 1..Len(shown)
  /\ starredIds' = Toggled(starredIds, shown[i].id)
  /\ UNCHANGED <<requests, search, sortBy, showStarredOnly, appVars>>

NextList ==
  \/ \E collection \in Collections : SetRequests(collection)
  \/ \E value \in Searches : SetSearch(value)
  \/ \E key \in SortKeys : SetSortBy(key)
  \/ ToggleStarredOnly
  \/ \E i \in 1..MaxListLen : ToggleListedStar(i)

SpecList == InitList /\ [][NextList]_vars

\* ------------------------- SpecStars: RequestList, its fetches and events ---
\* RequestList from its mount: its fetches complete, the operator uses the
\* controls and the star buttons of the list while it is rendered, and the
\* stream delivers events.
StarCollections == {<<>>, <<R1>>, <<R2>>, <<R2, R1>>}

InitStars ==
  /\ InitApp("requests")
  /\ requests = <<>>
  /\ search = <<>>
  /\ sortBy = "newest"
  /\ showStarredOnly = FALSE

\* The list and its controls are rendered: not loading and no error.
ListRendered == RequestListRenders(loading["requests"], error, 1) = "data"

\* Mutant of RequestsLoaded: stars of requests that are no longer in the
\* collection are dropped.
RequestsLoaded_PrunesStars(collection) ==
  /\ requests' = collection
  /\ error' = FALSE
  /\ loading' = [loading EXCEPT !["requests"] = FALSE]
  /\ starredIds' = {id \in starredIds : \E i \in 1..Len(collection) : collection[i].id = id}
  /\ UNCHANGED <<search, sortBy, showStarredOnly, eventVars, historyVars,
                 seenTrigger, inflight, fetchSeq, data, activeTab, chatVars, kills,
                 insightsVars, typingVars>>

\* fetchRequests completes with an ok response.
RequestsLoaded(collection) ==
  /\ requests' = collection
  /\ error' = FALSE
  /\ loading' = [loading EXCEPT !["requests"] = FALSE]
  /\ UNCHANGED <<search, sortBy, showStarredOnly, starredIds, eventVars, historyVars,
                 seenTrigger, inflight, fetchSeq, data, activeTab, chatVars, kills,
                 insightsVars, typingVars>>

\* fetchRequests completes with a failure.
RequestsFailed ==
  /\ error' = TRUE
  /\ loading' = [loading EXCEPT !["requests"] = FALSE]
  /\ UNCHANGED <<listVars, starredIds, eventVars, historyVars, seenTrigger, inflight,
                 fetchSeq, data, activeTab, chatVars, kills, insightsVars, typingVars>>

TypeSearch(value) == ListRendered /\ SetSearch(value)
ChooseSort(key) == ListRendered /\ SetSortBy(key)
PressStarredOnly == ListRendered /\ ToggleStarredOnly
PressStar(i) == ListRendered /\ ToggleListedStar(i)

DeliverS ==
  /\ \E msg \in DashboardMessages : Deliver(msg, MaxStarEvents)
  /\ UNCHANGED <<historyVars, fetchVars, uiVars, chatVars, kills, listVars, insightsVars, typingVars>>

NextStars ==
  \/ \E collection \in StarCollections : RequestsLoaded(collection)
  \/ RequestsFailed
  \/ \E value \in {<<>>, <<"a", "2">>} : TypeSearch(value)
  \/ \E key \in SortKeys : ChooseSort(key)
  \/ PressStarredOnly
  \/ \E i \in 1..2 : PressStar(i)
  \/ DeliverS
  \/ RunEventEffectB

SpecStars == InitStars /\ [][NextStars]_vars

\* ---------------------------------- InsightsDashboard: the two tallies ---
\* const severityOrder = ['LOW', 'MEDIUM', 'HIGH', 'CRITICAL']
severityOrder == <<"LOW", "MEDIUM", "HIGH", "CRITICAL">>
\* The keys of decisionDistribution's counts.
decisionOrder == <<"APPROVE", "FLAG", "KILL", "PENDING">>

\* The number NaN, kept apart from every count.
NaN == -1
\* x + 1 on a number.
PlusOne(x) == IF x = NaN THEN NaN ELSE x + 1

\* Mutant of Bump: a key the object lacks is counted under LOW.
Bump_Fallback(counts, key) ==
  LET used == IF key \in DOMAIN counts THEN key ELSE "LOW"
  IN [k \in DOMAIN counts \cup {used} |->
        IF k # used THEN counts[k]
        ELSE IF used \in DOMAIN counts THEN PlusOne(counts[used]) ELSE NaN]

\* counts[key] += 1: reading a key the object lacks gives undefined, and
\* undefined + 1 is NaN, stored under the new key.
Bump(counts, key) ==
  [k \in DOMAIN counts \cup {key} |->
     IF k # key THEN counts[k]
     ELSE IF key \in DOMAIN counts THEN PlusOne(counts[key]) ELSE NaN]

\* Mutant of SeverityCounts: the first violation of the sample is skipped.
RECURSIVE SeverityCounts_SkipFirst(_)
SeverityCounts_SkipFirst(sample) ==
  IF Len(sample) <= 1 THEN [k \in {"LOW", "MEDIUM", "HIGH", "CRITICAL"} |-> 0]
  ELSE Bump(SeverityCounts_SkipFirst(SubSeq(sample, 1, Len(sample) - 1)),
            sample[Len(sample)].severity)

\* severityCounts: for (const violation of violations)
\*   counts[violation.severity] += 1
RECURSIVE SeverityCounts(_)
SeverityCounts(sample) ==
  IF sample = <<>> THEN [k \in {"LOW", "MEDIUM", "HIGH", "CRITICAL"} |-> 0]
  ELSE Bump(SeverityCounts(SubSeq(sample, 1, Len(sample) - 1)),
            sample[Len(sample)].severity)

\* Mutant of DecisionBucket: a request without decision is tallied nowhere
\* valid (its missing decision is used as the key).
DecisionBucket_NoPending(request) == request.decision

\* if (!request.decision) PENDING else request.decision
DecisionBucket(request) ==
  IF Truthy(request.decision) THEN request.decision ELSE "PENDING"

\* decisionDistribution.counts
RECURSIVE DecisionCounts(_)
DecisionCounts(sample) ==
  IF sample = <<>> THEN [k \in {"APPROVE", "FLAG", "KILL", "PENDING"} |-> 0]
  ELSE Bump(DecisionCounts(SubSeq(sample, 1, Len(sample) - 1)),
            DecisionBucket(sample[Len(sample)]))

\* Numbers are kept exact, as fractions; JavaScript computes them in
\* double precision, which rounds.
Fraction(num, den) == [num |-> num, den |-> den]
FracAdd(a, b) == Fraction(a.num * b.den + b.num * a.den, a.den * b.den)
FracLeq(a, b) == a.num * b.den <= b.num * a.den
FracEq(a, b) == a.num * b.den = b.num * a.den

\* Math.max(1, n)
MaxOne(n) == IF n < 1 THEN 1 ELSE n

\* Mutant of Percent: the ratio, not multiplied by 100.
Percent_Ratio(count, total) == Fraction(count, total)

\* (count / total) * 100
Percent(count, total) == Fraction(count * 100, total)

\* chartStyle: the four colour stops of the conic gradient, each from the
\* previous boundary to its own.
ChartStops(sample) ==
  LET counts == DecisionCounts(sample)
      total == MaxOne(Len(sample))
      approvePercent == Percent(counts["APPROVE"], total)
      flagPercent == Percent(counts["FLAG"], total)
      killPercent == Percent(counts["KILL"], total)
      pendingPercent == Percent(counts["PENDING"], total)
      upToFlag == FracAdd(approvePercent, flagPercent)
      upToKill == FracAdd(upToFlag, killPercent)
      upToPending == FracAdd(upToKill, pendingPercent)
  IN <<[from |-> Fraction(0, 1), to |-> approvePercent],
       [from |-> approvePercent, to |-> upToFlag],
       [from |-> upToFlag, to |-> upToKill],
       [from |-> upToKill, to |-> upToPending]>>

\* The memoized values of the current render.
severityCounts == SeverityCounts(insightsViolations)
decisionDistribution ==
  [counts |-> DecisionCounts(insightsRequests),
   chartStyle |-> ChartStops(insightsRequests)]

\* const totalViolations = Math.max(1, stats.totalViolations)
totalViolations == MaxOne(insightsStats.totalViolations)
\* width of a severity bar, in percent
BarWidth(severity) == Percent(severityCounts[severity], totalViolations)

\* ---------------------------------- SpecInsights: InsightsDashboard alone -
\* What /api/audit/violations/all and /api/requests can return.
SampleSeverities == {"LOW", "MEDIUM", "HIGH", "CRITICAL", "INFO"}
SampleDecisions == {"APPROVE", "FLAG", "KILL", Absent}
ViolationSamples ==
  UNION {[1..n -> [id : {"v"}, severity : SampleSeverities]] : n \in 0..MaxSample}
RequestSamples ==
  UNION {[1..n -> [decision : SampleDecisions]] : n \in 0..MaxSample}
StatsSamples ==
  {[present |-> TRUE, totalViolations |-> n] : n \in {0, 2, MaxSample + 2}}

\* A response body with its list field, or without it.
WithList(list) == [present |-> TRUE, list |-> list]
WithoutList == [present |-> FALSE, list |-> <<>>]

\* The three responses of one load round.
InsightsResponses ==
  {[stats |-> st, violations |-> vs, requests |-> WithList(<<>>)] :
     st \in StatsSamples,
     vs \in {WithList(sample) : sample \in ViolationSamples} \cup {WithoutList}}
  \cup {[stats |-> [present |-> TRUE, totalViolations |-> 0], violations |-> WithList(<<>>), requests |-> rs] :
          rs \in {WithList(sample) : sample \in RequestSamples} \cup {WithoutList}}

\* data.violations || [] and data.requests || []
OrEmptyList(body) == IF body.present THEN body.list ELSE <<>>

\* Mutant of LoadInsights: each piece is set as soon as its own response is
\* there, before the others are looked at.
LoadInsights_PieceByPiece(response, ok) ==
  /\ Mounted("insights", activeTab)
  /\ insightsStats' = IF response.stats.present THEN response.stats ELSE insightsStats
  /\ IF ok
     THEN /\ insightsViolations' = OrEmptyList(response.violations)
          /\ insightsRequests' = OrEmptyList(response.requests)
     ELSE UNCHANGED <<insightsViolations, insightsRequests>>
  /\ loading' = [loading EXCEPT !["insights"] = FALSE]
  /\ UNCHANGED <<eventVars, historyVars, seenTrigger, inflight, fetchSeq, data, error,
                 uiVars, chatVars, kills, listVars, typingVars>>

\* load() completes with the three responses of its round: when all three
\* are ok the three pieces are replaced, otherwise (a response not ok, or a
\* fetch rejected) the error is logged; finally setLoading(false).
LoadInsights(response, ok) ==
  /\ Mounted("insights", activeTab)
  /\ IF ok
     THEN /\ insightsStats' = response.stats
          /\ insightsViolations' = OrEmptyList(response.violations)
          /\ insightsRequests' = OrEmptyList(response.requests)
     ELSE UNCHANGED <<insightsStats, insightsViolations, insightsRequests>>
  /\ loading' = [loading EXCEPT !["insights"] = FALSE]
  /\ UNCHANGED <<eventVars, historyVars, seenTrigger, inflight, fetchSeq, data, error,
                 uiVars, chatVars, kills, listVars, typingVars>>

\* A round in which a fetch failed or a response was not ok.
FailedRound == [stats |-> NoStats, violations |-> WithoutList, requests |-> WithoutList]

\* A load round completes with three ok responses, or fails.
LoadSample(response) == LoadInsights(response, TRUE) /\ UNCHANGED insightsRound
LoadFailed == LoadInsights(FailedRound, FALSE) /\ UNCHANGED insightsRound

NextInsights ==
  \/ \E response \in InsightsResponses : LoadSample(response)
  \/ LoadFailed

SpecInsights == Init /\ [][NextInsights]_vars

\* ------------------------------------- SpecRounds: load rounds on record ---
\* The responses of a load round: the three bodies as the backend sent them.
\* The round may still fail: a response may be not ok, whatever the others
\* carry (the body of a response that is not ok is not read).
RoundResponses ==
  {[stats |-> st, violations |-> vs, requests |-> rs] :
     st \in {[present |-> TRUE, totalViolations |-> n] : n \in {0, 2, 5}},
     vs \in {WithoutList, WithList(<<>>), WithList(<<[id |-> "v", severity |-> "HIGH"]>>)},
     rs \in {WithList(<<>>), WithList(<<[decision |-> "APPROVE"]>>)}}

\* A load round completes; the round is put on record.
LoadRound(response, ok) ==
  /\ LoadInsights(response, ok)
  /\ insightsRound' = <<[response |-> response, ok |-> ok]>>

NextRounds ==
  \/ \E response \in RoundResponses, ok \in BOOLEAN : LoadRound(response, ok)
  \/ LoadRound(FailedRound, FALSE)

SpecRounds == Init /\ [][NextRounds]_vars

\* ------------------------------------------------- the chat on its own ------
\* What the operator types into the chat.
ChatInputs ==
  {<<"r", "e", "q", "u", "e", "s", "t", " ", "s", "t", "a", "t", "s">>,
   <<" ", "s", "t", "a", "t", "s", " ">>,
   <<"h", "o", "w", " ", "m", "a", "n", "y", " ", "b", "l", "o", "c", "k", "e", "d", " ", "a", "g", "e", "n", "t", "s">>,
   <<"k", "i", "l", "l", " ", "r", "e", "q", "u", "e", "s", "t">>,
   <<"s", "k", "i", "l", "l">>,
   <<"R", "E", "Q", "U", "E", "S", "T", " ", "v", "i", "o", "l", "a", "t", "i", "o", "n", "s">>,
   <<"v", "i", "o", "l", "a", "t", "i", "o", "n", "s">>,
   <<"h", "e", "l", "l", "o">>,
   <<"H", "e", "l", "p">>,
   <<" ", " ", " ">>}

\* Bodies of /api/agents, /api/requests?limit=5, /api/audit/violations/all?limit=5.
Agent(agentId, isActive) == [agentId |-> agentId, isActive |-> isActive]
AgentBodies ==
  {<<>>,
   <<Agent("x", FALSE)>>,
   <<Agent("x", TRUE)>>,
   <<Agent("x", TRUE), Agent("y", FALSE)>>,
   <<Agent("z", FALSE), Agent("x", TRUE), Agent("y", FALSE)>>}
RequestBodies ==
  {<<>>,
   <<[agentId |-> "a2", action |-> "write", decision |-> "KILL"],
     [agentId |-> "a1", action |-> "read", decision |-> Absent]>>}
ViolationBodies ==
  {<<>>,
   <<[type |-> "PII", severity |-> "HIGH"], [type |-> "SECRET", severity |-> "LOW"]>>}

\* The router makes no request on the help route.
NoResponse == [failed |-> FALSE, ok |-> FALSE, body |-> <<>>]

\* What the endpoint of a route can answer.
ChatResponses(route) ==
  CASE route = "stats" -> ResponsesOf({StatsBody}, StatsBody)
    [] route = "agents" -> ResponsesOf(AgentBodies, <<>>)
    [] route = "requests" -> ResponsesOf(RequestBodies, <<>>)
    [] route = "violations" -> ResponsesOf(ViolationBodies, <<>>)
    [] route = "help" -> {NoResponse}

InitChat ==
  /\ InitApp("chat")
  /\ requests = <<>>
  /\ search = <<>>
  /\ sortBy = "newest"
  /\ showStarredOnly = FALSE

NextChat ==
  \/ \E chatInput \in ChatInputs : SendMessage(chatInput, MaxChatExchanges)
  \/ \E response \in ChatResponses(Route(ToLowerCase(PendingInput))) : ChatSettle(response)

SpecChat == InitChat /\ [][NextChat]_vars

\* ------------------------------------------- SpecTyping: the landing page ---
\* App before the dashboard is started: the typing effect of the headline.
typedTexts ==
  <<<<"M", "o", "n", "i", "t", "o", "r", " ", "e", "v", "e", "r", "y", " ",
      "r", "e", "q", "u", "e", "s", "t", " ", "t", "h", "r", "o", "u", "g",
      "h", " ", "a", " ", "m", "u", "l", "t", "i", "-", "a", "g", "e", "n",
      "t", " ", "s", "e", "c", "u", "r", "i", "t", "y", " ", "p", "i", "p",
      "e", "l", "i", "n", "e", ".">>,
    <<"C", "l", "a", "s", "s", "i", "f", "y", " ", "r", "i", "s", "k", ",",
      " ", "d", "e", "t", "e", "c", "t", " ", "v", "i", "o", "l", "a", "t",
      "i", "o", "n", "s", ",", " ", "a", "n", "d", " ", "t", "r", "i", "g",
      "g", "e", "r", " ", "k", "i", "l", "l", "-", "s", "w", "i", "t", "c",
      "h", " ", "c", "o", "n", "t", "r", "o", "l", "s", " ", "i", "n", "s",
      "t", "a", "n", "t", "l", "y", ".">>,
    <<"A", "u", "d", "i", "t", " ", "e", "v", "e", "r", "y", " ", "d", "e",
      "c", "i", "s", "i", "o", "n", " ", "w", "i", "t", "h", " ", "t", "r",
      "a", "c", "e", "a", "b", "l", "e", " ", "r", "e", "a", "s", "o", "n",
      "i", "n", "g", " ", "a", "n", "d", " ", "l", "i", "v", "e", " ", "e",
      "v", "e", "n", "t", " ", "s", "t", "r", "e", "a", "m", "s", ".">>>>

\* typedTexts[textIndex % typedTexts.length], the index counted from 0
FullText(index) == typedTexts[(index % Len(typedTexts)) + 1]

\* fullText.slice(0, Math.max(0, display.length - 1)) when deleting,
\* fullText.slice(0, Math.min(fullText.length, display.length + 1)) otherwise
NextValue(fullText, shown, deleting) ==
  IF deleting
  THEN Slice(fullText, IF Len(shown) - 1 < 0 THEN 0 ELSE Len(shown) - 1)
  ELSE Slice(fullText, IF Len(fullText) < Len(shown) + 1 THEN Len(fullText) ELSE Len(shown) + 1)

\* Mutant of NextIndex: the index is not taken modulo the number of texts.
NextIndex_NoWrap(prev) == prev + 1

\* setTextIndex((prev) => (prev + 1) % typedTexts.length)
NextIndex(prev) == (prev + 1) % Len(typedTexts)

\* The landing page as constructed; its effect has not run yet.  The
\* dashboard is constructed when it is started.
InitTyping ==
  /\ started = FALSE
  /\ textIndex = 0
  /\ display = <<>>
  /\ isDeleting = FALSE
  /\ typingTimer = NoTimer
  /\ typingEffectDue = TRUE
  /\ DashboardState("home")
  /\ requests = <<>>
  /\ search = <<>>
  /\ sortBy = "newest"
  /\ showStarredOnly = FALSE

\* useEffect(() => {...}, [display, isDeleting, started, textIndex]): the
\* cleanup of the previous run clears its timeout; then nothing when
\* started; the pause timeout when the text is complete; the advance to the
\* next text when it is deleted; else the timeout of the next character.
TypingEffect ==
  LET fullText == FullText(textIndex) IN
  /\ typingEffectDue
  /\ IF started
     THEN /\ typingTimer' = NoTimer
          /\ typingEffectDue' = FALSE
          /\ UNCHANGED <<isDeleting, textIndex>>
     ELSE IF ~isDeleting /\ display = fullText
     THEN /\ typingTimer' = [kind |-> "pause", nextValue |-> <<>>]
          /\ typingEffectDue' = FALSE
          /\ UNCHANGED <<isDeleting, textIndex>>
     ELSE IF isDeleting /\ display = <<>>
     THEN /\ typingTimer' = NoTimer
          /\ isDeleting' = FALSE
          /\ textIndex' = NextIndex(textIndex)
          /\ typingEffectDue' = TRUE
     ELSE /\ typingTimer' = [kind |-> "type",
                             nextValue |-> NextValue(fullText, display, isDeleting)]
          /\ typingEffectDue' = FALSE
          /\ UNCHANGED <<isDeleting, textIndex>>
  /\ UNCHANGED <<started, display>>
  /\ UNCHANGED <<eventVars, historyVars, fetchVars, uiVars, chatVars, kills, listVars, insightsVars>>

\* The pending timeout fires: setIsDeleting(true) after the pause,
\* setDisplay(nextValue) otherwise.
TimerFires ==
  /\ typingTimer # NoTimer
  /\ typingTimer' = NoTimer
  /\ IF typingTimer.kind = "pause"
     THEN /\ isDeleting' = TRUE
          /\ typingEffectDue' = (isDeleting # TRUE)
          /\ UNCHANGED display
     ELSE /\ display' = typingTimer.nextValue
          /\ typingEffectDue' = (typingTimer.nextValue # display)
          /\ UNCHANGED isDeleting
  /\ UNCHANGED <<started, textIndex>>
  /\ UNCHANGED <<eventVars, historyVars, fetchVars, uiVars, chatVars, kills, listVars, insightsVars>>

\* onClick={() => setStarted(true)}: a click is a discrete event, so React
\* commits the render and runs the effect, cleanup first, before any
\* timeout can fire: the pending timeout is cleared and the effect returns.
StartDashboard ==
  /\ ~started
  /\ started' = TRUE
  /\ typingTimer' = NoTimer
  /\ typingEffectDue' = FALSE
  /\ UNCHANGED <<textIndex, display, isDeleting>>
  /\ UNCHANGED <<eventVars, historyVars, fetchVars, uiVars, chatVars, kills, listVars, insightsVars>>

NextTyping == TypingEffect \/ TimerFires \/ StartDashboard

SpecTyping == InitTyping /\ [][NextTyping]_vars

\* ================================================================ claims =
\* ---- SpecBuffer ----------------------------------------------------------

\* C1: after any sequence of stream events the live violation buffer holds
\* at most 8 entries and is ordered most-recent-first: of two entries, the
\* one nearer the head was ingested later (ids are issued in ingestion
\* order, detectedAt is the ingestion time).
C1_BufferBoundedNewestFirst ==
  /\ Len(violations) <= 8
  /\ \A i, j \in 1..Len(violations) :
       i < j => /\ violations[i].id > violations[j].id
                /\ violations[i].detectedAt >= violations[j].detectedAt

\* C1 witness: a full buffer that has already evicted an entry, after a
\* refreshing event was processed as well.
C1_Witness ==
  Len(violations) = 8 /\ Len(ingested) > 8 /\ refreshTrigger > 0

\* C2: eviction is FIFO: after n well-formed violations v1..vn were ingested
\* the buffer is exactly [vn, ..., v(max(1,n-7))], the min(n,8) most recent
\* in reverse arrival order; LOW, LOW, CRITICAL gives CRITICAL, LOW, LOW.
C2_FifoEviction ==
  LET n == Len(ingested) IN
  /\ Len(violations) = IF n < 8 THEN n ELSE 8
  /\ \A i \in 1..Len(violations) :
       /\ violations[i].id = n - i + 1
       /\ violations[i].severity = ingested[n - i + 1]
  /\ ingested = <<"LOW", "LOW", "CRITICAL">> =>
       [i \in 1..3 |-> violations[i].severity] = <<"CRITICAL", "LOW", "LOW">>

\* C2 witness: nine violations ingested, eight kept, the first one gone.
C2_Witness ==
  Len(ingested) = 9 /\ Len(violations) = 8 /\ violations[8].id = 2

\* A violation payload that is absent or lacks type, description or severity.
Lacks(incoming) ==
  \/ ~incoming.present
  \/ incoming.type = Absent
  \/ incoming.description = Absent
  \/ incoming.severity = Absent

\* C3: processing a violation:detected event whose data.violation is absent
\* or lacks type, description or severity, or an event of another type,
\* leaves the violation buffer exactly as it was and sets no error state.
C3_MalformedLeavesBuffer ==
  [][(/\ eventPending /\ ~eventPending'
      /\ \/ lastEvent.type # "violation:detected"
         \/ Lacks(lastEvent.violation))
     => (violations' = violations /\ error' = error)]_vars

\* C3 witness: a malformed violation event has been processed while the
\* buffer held entries.
C3_Witness ==
  /\ ~eventPending
  /\ lastEvent.type = "violation:detected"
  /\ Lacks(lastEvent.violation)
  /\ Len(violations) > 0

\* ---- Spec ----------------------------------------------------------------

\* The step processes a stream event of a refreshing type.
QualifyingEventStep ==
  /\ eventPending /\ ~eventPending'
  /\ lastEvent.type \in {"request:processed", "killswitch:triggered"}

\* C4 as claimed: the refresh counter changes in a step if and only if the
\* step processes a request:processed or killswitch:triggered event.
C4_OnlyEventsMoveCounter ==
  [][(refreshTrigger' # refreshTrigger) <=> QualifyingEventStep]_vars

\* C4 as amended: the refresh counter changes in a step if and only if the
\* step processes a request:processed or killswitch:triggered event or is
\* the operator's kill-switch callback; each such step adds exactly 1.
C4_EventsAndKillSwitchMoveCounter ==
  [][/\ (refreshTrigger' # refreshTrigger)
          <=> (QualifyingEventStep \/ kills' # kills)
     /\ refreshTrigger' \in {refreshTrigger, refreshTrigger + 1}]_vars

\* C4 witness: the counter was moved once by an event and once by the
\* kill-switch callback.
C4_Witness ==
  kills = 1 /\ refreshTrigger = 2 /\ qualifyingDelivered = 1

\* C5: (no kill-switch callback having run) once no event awaits the
\* lastEvent effect, the counter has risen by exactly the number of
\* request:processed / killswitch:triggered events delivered: none is missed.
C5_NoQualifyingEventMissed ==
  (~eventPending /\ kills = 0) => refreshTrigger = qualifyingDelivered

\* C6: last-request-wins per view: while a view stays mounted, the response
\* it holds is never replaced by the response of a fetch started earlier.
C6_LastRequestWins ==
  [][\A v \in Views :
       (activeTab' = activeTab /\ data'[v] # data[v]) => data'[v] > data[v]]_vars

\* C7: at-least-once refresh: once every effect has run, the home stats
\* view (mounted for the whole session) has started its mount fetch and one
\* further fetch for every refreshing event delivered.
C7_RefetchAfterEveryEvent ==
  (~eventPending /\ \A v \in Views : ~EffectDue(v))
    => fetchSeq["homeStats"] >= 1 + qualifyingDelivered

\* C8: no event delivered by the stream is skipped: once no event awaits the
\* lastEvent effect, every delivered event has been processed.
C8_NoEventSkipped ==
  ~eventPending => processed = delivered

\* ---- SpecList ------------------------------------------------------------

\* C9: pinning: for every collection, star set, query, starred-only flag and
\* sort key, the visible list never places a non-starred request before a
\* starred one.
C9_StarredFirst ==
  LET shown == visible IN
  \A i, j \in 1..Len(shown) :
    i < j => ~(shown[i].id \notin starredIds /\ shown[j].id \in starredIds)

\* C9 witness: under 'newest' a starred request is listed before a newer
\* non-starred one.
C9_Witness ==
  /\ sortBy = "newest"
  /\ \E i, j \in 1..Len(visible) :
       /\ i < j
       /\ visible[i].id \in starredIds
       /\ visible[j].id \notin starredIds
       /\ GetTime(visible[j].createdAt) > GetTime(visible[i].createdAt)

\* The query is a substring of one of the six lowercased fields (an absent
\* decision counting as the empty string); the empty query matches all.
FieldsContain(request, query) ==
  \/ query = <<>>
  \/ \E field \in {request.id, request.agentId, request.action, request.target,
                   request.status,
                   IF request.decision = Undefined THEN <<>> ELSE request.decision} :
       Includes(ToLowerCase(field), query)

\* The visible list is a permutation, without duplicates, of the fetched
\* requests that match the query and the starred-only flag.
VisibleIsExactly(query) ==
  LET wanted == {i \in 1..Len(requests) :
                   /\ FieldsContain(requests[i], query)
                   /\ showStarredOnly => requests[i].id \in starredIds}
      shown == visible
  IN /\ Len(shown) = Cardinality(wanted)
     /\ {shown[k] : k \in 1..Len(shown)} = {requests[i] : i \in wanted}

\* C10 as claimed: a request is visible iff the lowercased query is a
\* substring of one of its six fields and it passes the starred-only flag.
C10_FilterByLowercasedQuery ==
  VisibleIsExactly(ToLowerCase(search))

\* C10 as amended: the query is the search text trimmed of leading and
\* trailing whitespace and lowercased; r1/a1 and r2/a2 with query "a2" and
\* sort agent give [r2].
C10_FilterByTrimmedLowercasedQuery ==
  /\ VisibleIsExactly(ToLowerCase(Trim(search)))
  /\ (/\ requests = <<R1, R2>> /\ search = <<"a", "2">> /\ sortBy = "agent"
      /\ ~showStarredOnly) => visible = <<R2>>

\* C10 witness: a query with surrounding blanks and capitals selects some of
\* the fetched requests and not others.
C10_Witness ==
  /\ search = <<" ", "A", "2", " ">>
  /\ Len(requests) = 2
  /\ Len(visible) = 1

\* UTF-16 code unit of a character of the model.
CodeUnit(c) ==
  IF IndexIn(c, Digits) > 0 THEN 47 + IndexIn(c, Digits)
  ELSE IF IndexIn(c, Capitals) > 0 THEN 64 + IndexIn(c, Capitals)
  ELSE IF IndexIn(c, Letters) > 0 THEN 96 + IndexIn(c, Letters)
  ELSE 32

\* Order of two strings: "codeunit" is plain lexicographic order on code
\* units; "collation" compares the strings without regard to case first
\* and puts lower case first between strings equal up to case.
StringOrder(a, b, order) ==
  IF order = "codeunit"
  THEN LexCompare([i \in 1..Len(a) |-> CodeUnit(a[i])],
                  [i \in 1..Len(b) |-> CodeUnit(b[i])])
  ELSE LET base == LexCompare([i \in 1..Len(a) |-> CodeUnit(ToLowerChar(a[i]))],
                              [i \in 1..Len(b) |-> CodeUnit(ToLowerChar(b[i]))])
       IN IF base # 0 THEN base
          ELSE LexCompare([i \in 1..Len(a) |-> IF a[i] = ToLowerChar(a[i]) THEN 0 ELSE 1],
                          [i \in 1..Len(b) |-> IF b[i] = ToLowerChar(b[i]) THEN 0 ELSE 1])

\* Order of two requests under a sort key: negative when a is to go first.
KeyOrder(a, b, key, order) ==
  CASE key = "newest" -> GetTime(b.createdAt) - GetTime(a.createdAt)
    [] key = "oldest" -> GetTime(a.createdAt) - GetTime(b.createdAt)
    [] key = "agent" -> StringOrder(a.agentId, b.agentId, order)
    [] key = "status" -> StringOrder(a.status, b.status, order)

\* Place of a request in the fetched collection.
FetchedAt(request) == CHOOSE i \in 1..Len(requests) : requests[i] = request

\* Two visible requests of equal star status are listed in key order, and in
\* fetched order when their keys are equal.
SortOrderHolds(order) ==
  LET shown == visible IN
  \A i, j \in 1..Len(shown) :
    (i < j /\ (shown[i].id \in starredIds <=> shown[j].id \in starredIds)) =>
      LET k == KeyOrder(shown[i], shown[j], sortBy, order)
      IN /\ k <= 0
         /\ k = 0 => FetchedAt(shown[i]) < FetchedAt(shown[j])

\* C11 as claimed: among two visible requests of equal star status, newest
\* lists the later createdAt first, oldest the earlier, agent and status the
\* lexicographically smaller string first; equal keys keep fetched order.
C11_SortLexicographic ==
  SortOrderHolds("codeunit")

\* C11 as amended: agent and status list first the string that
\* localeCompare orders first (case ignored first, lower case before upper
\* case between strings equal up to case); the rest as claimed.
C11_SortByCollation ==
  SortOrderHolds("collation")

\* C11 witness: under 'agent', a2 is listed before A2 although A2 was
\* fetched first and has the smaller code units.
C11_Witness ==
  /\ sortBy = "agent"
  /\ requests = <<R3, R2>>
  /\ visible = <<R2, R3>>

\* C12: toggleStar(id) flips the membership of id in the star set and of no
\* other id, toggling twice restores the set, and a step that toggles a
\* star leaves the fetched data, loading and error state unchanged and
\* starts no fetch.
C12_ToggleStarIsSymmetricDifference ==
  [][/\ \A id \in StarIds :
          LET once == Toggled(starredIds, id)
          IN /\ id \in once <=> id \notin starredIds
             /\ once \ {id} = starredIds \ {id}
             /\ Toggled(once, id) = starredIds
     /\ (starredIds' # starredIds /\ activeTab' = activeTab) =>
          /\ Cardinality((starredIds' \ starredIds) \cup (starredIds \ starredIds')) = 1
          /\ UNCHANGED <<data, loading, error, requests>>
          /\ UNCHANGED <<fetchSeq, inflight, seenTrigger>>]_vars

\* C12 witness: a request is starred while a re-fetch of the list is in
\* flight.
C12_Witness ==
  /\ activeTab = "requests"
  /\ starredIds # {}
  /\ inflight["requests"] # {}
  /\ data["requests"] # 0

\* ---- SpecInsights --------------------------------------------------------

\* The bucket a request belongs to.
BucketOf(request) ==
  IF request.decision = Absent THEN "PENDING" ELSE request.decision

\* C13: every request of the fetched sample is tallied into exactly one of
\* APPROVE, FLAG, KILL, PENDING (no decision: PENDING), so each bucket holds
\* the number of requests of that bucket and the four counts sum to the
\* sample size.
C13_DecisionCountsSumToSampleSize ==
  LET counts == decisionDistribution.counts
  IN /\ DOMAIN counts = {"APPROVE", "FLAG", "KILL", "PENDING"}
     /\ \A bucket \in DOMAIN counts :
          counts[bucket] = Cardinality({i \in 1..Len(insightsRequests) :
                                          BucketOf(insightsRequests[i]) = bucket})
     /\ counts["APPROVE"] + counts["FLAG"] + counts["KILL"] + counts["PENDING"]
          = Len(insightsRequests)

\* C13 witness: a sample of three with a request without decision and two
\* different decisions.
C13_Witness ==
  /\ Len(insightsRequests) = 3
  /\ \E i, j, k \in 1..3 : /\ insightsRequests[i].decision = Absent
                           /\ insightsRequests[j].decision = "FLAG"
                           /\ insightsRequests[k].decision = "KILL"

\* The boundaries of the chart start at 0, never decrease, each stop starts
\* where the previous one ended, and the last one ends at the given percent.
BoundariesEndAt(percent) ==
  LET stops == decisionDistribution.chartStyle
  IN /\ FracEq(stops[1].from, Fraction(0, 1))
     /\ \A i \in 1..4 : FracLeq(stops[i].from, stops[i].to)
     /\ \A i \in 1..3 : FracEq(stops[i].to, stops[i + 1].from)
     /\ FracEq(stops[4].to, Fraction(percent, 1))

\* C14 as claimed: for every request sample, the empty one included, the
\* cumulative boundaries start at 0, are non-decreasing and end at 100.
C14_BoundariesEndAt100 ==
  BoundariesEndAt(100)

\* C14 as amended: the boundaries start at 0 and are non-decreasing; the
\* final boundary is 100 (in exact arithmetic) for a non-empty sample and 0
\* for the empty sample.
C14_BoundariesEndAt100UnlessEmpty ==
  BoundariesEndAt(IF insightsRequests = <<>> THEN 0 ELSE 100)

\* C14 witness: a sample of three whose percentages are thirds.
C14_Witness ==
  /\ Len(insightsRequests) = 3
  /\ decisionDistribution.counts["KILL"] = 1
  /\ decisionDistribution.counts["PENDING"] = 2

\* The violations of the sample whose severity is one of the four.
KnownSeverity(violation) ==
  violation.severity \in {"LOW", "MEDIUM", "HIGH", "CRITICAL"}

\* C15: the counts for LOW, MEDIUM, HIGH and CRITICAL sum to the number of
\* violations of the sample that have one of these severities, hence to the
\* sample size when all have, whatever stats.totalViolations is.
C15_SeverityCountsSumToSampleSize ==
  LET known == {i \in 1..Len(insightsViolations) : KnownSeverity(insightsViolations[i])}
      sum == severityCounts["LOW"] + severityCounts["MEDIUM"]
               + severityCounts["HIGH"] + severityCounts["CRITICAL"]
  IN /\ sum = Cardinality(known)
     /\ Cardinality(known) = Len(insightsViolations) => sum = Len(insightsViolations)

\* C15 witness: three violations of known severities while the stats report
\* another total, so that a bar is wider than 100 percent.
C15_Witness ==
  /\ Len(insightsViolations) = 3
  /\ \A i \in 1..3 : KnownSeverity(insightsViolations[i])
  /\ insightsStats.present
  /\ insightsStats.totalViolations = 2
  /\ \E severity \in {"LOW", "MEDIUM", "HIGH", "CRITICAL"} :
       ~FracLeq(BarWidth(severity), Fraction(100, 1))

\* C16: a violation whose severity is none of the four is ignored by the
\* tally: the tally yields a number for each of the four severities, the
\* same as for the sample without that violation.
C16_UnknownSeverityIgnored ==
  LET cleaned == SelectSeq(insightsViolations, KnownSeverity)
  IN \A severity \in {"LOW", "MEDIUM", "HIGH", "CRITICAL"} :
       /\ severity \in DOMAIN severityCounts
       /\ severityCounts[severity] # NaN
       /\ severityCounts[severity] = SeverityCounts(cleaned)[severity]
       /\ severityCounts[severity] =
            Cardinality({i \in 1..Len(cleaned) : cleaned[i].severity = severity})

\* C16 witness: a sample with a violation of unknown severity between two
\* known ones.
C16_Witness ==
  /\ Len(insightsViolations) = 3
  /\ ~KnownSeverity(insightsViolations[2])
  /\ KnownSeverity(insightsViolations[1])
  /\ KnownSeverity(insightsViolations[3])
  /\ severityCounts["INFO"] = NaN

\* ---- SpecChat ------------------------------------------------------------

\* The precedence the router is to observe, first rule first: the keywords
\* of a rule, the endpoint it fetches and how its replies begin.
C17_Precedence ==
  <<[keywords |-> {<<"s", "t", "a", "t">>},
     endpoint |-> "/api/audit/stats/summary",
     forms |-> {"Stats snapshot: total="}],
    [keywords |-> {<<"b", "l", "o", "c", "k", "e", "d">>, <<"k", "i", "l", "l">>},
     endpoint |-> "/api/agents",
     forms |-> {"Blocked agents (", "No blocked agents right now."}],
    [keywords |-> {<<"r", "e", "q", "u", "e", "s", "t">>},
     endpoint |-> "/api/requests?limit=5",
     forms |-> {"Recent requests: ", "No requests found yet."}],
    [keywords |-> {<<"v", "i", "o", "l", "a", "t", "i", "o", "n">>},
     endpoint |-> "/api/audit/violations/all?limit=5",
     forms |-> {"Recent violations: ", "No violations found."}]>>
C17_Matches(query, i) == \E keyword \in C17_Precedence[i].keywords : Includes(query, keyword)
C17_HasKeyword(query) == \E i \in 1..Len(C17_Precedence) : C17_Matches(query, i)
C17_FirstRule(query) ==
  C17_Precedence[CHOOSE i \in 1..Len(C17_Precedence) :
                   /\ C17_Matches(query, i)
                   /\ \A j \in 1..(i - 1) : ~C17_Matches(query, j)]

\* C17: the router is first-match-wins in the order stat, blocked or kill,
\* request, violation: sending an input whose lowercased text contains a
\* keyword starts exactly one fetch, that of the first rule in this order
\* with a keyword the text contains, whatever later keywords it contains as
\* well; no further fetch is made when the reply arrives, and the reply to
\* an ok response has the form of that rule.
C17_FirstMatchWins ==
  [][ /\ (Len(messages') = Len(messages) + 1 /\ messages'[Len(messages')].role = "user")
           => LET query == ToLowerCase(messages'[Len(messages')].text)
              IN C17_HasKeyword(query)
                   => /\ Len(chatLog') = Len(chatLog) + 1
                      /\ SubSeq(chatLog', 1, Len(chatLog)) = chatLog
                      /\ chatLog'[Len(chatLog')].endpoint = C17_FirstRule(query).endpoint
      /\ (chatLoading /\ Len(messages') = Len(messages) + 1
                      /\ messages'[Len(messages')].role = "assistant")
           => LET query == ToLowerCase(PendingInput)
              IN C17_HasKeyword(query)
                   => /\ Len(chatLog') = Len(chatLog)
                      /\ chatLog'[Len(chatLog')].endpoint = C17_FirstRule(query).endpoint
                      /\ (chatLog'[Len(chatLog')].response.ok
                            => messages'[Len(messages')].text[1] \in C17_FirstRule(query).forms)
    ]_vars

\* C17 witness: "request stats" and "kill request", each containing a later
\* keyword as well, have been answered with the stats summary and with the
\* blocked agents.
C17_Witness ==
  /\ Len(messages) = 5
  /\ messages[2].text = <<"r", "e", "q", "u", "e", "s", "t", " ", "s", "t", "a", "t", "s">>
  /\ messages[3].text[1] = "Stats snapshot: total="
  /\ messages[4].text = <<"k", "i", "l", "l", " ", "r", "e", "q", "u", "e", "s", "t">>
  /\ messages[5].text[1] = "Blocked agents ("
  /\ Len(chatLog) = 2
  /\ chatLog[1].endpoint = "/api/audit/stats/summary"
  /\ chatLog[2].endpoint = "/api/agents"

\* The error message due for a fetch of the endpoint that settled so.
C18_ErrorText(entry) ==
  IF entry.response.failed THEN "Failed to fetch"
  ELSE CASE entry.endpoint = "/api/audit/stats/summary" -> "Unable to fetch stats"
         [] entry.endpoint = "/api/agents" -> "Unable to fetch agents"
         [] entry.endpoint = "/api/requests?limit=5" -> "Unable to fetch requests"
         [] entry.endpoint = "/api/audit/violations/all?limit=5" -> "Unable to fetch violations"

\* C18: when the fetch of a chat exchange fails, by rejecting or with a
\* response that is not ok, the step that ends the exchange appends exactly
\* one message to the conversation, an assistant message carrying the
\* error, and leaves the chat not loading, the state in which sendMessage
\* accepts an input.
C18_FetchFailureBecomesErrorReply ==
  [][ ( /\ chatLoading
        /\ Len(chatLog) > 0
        /\ ~chatLog[Len(chatLog)].settled
        /\ chatLog'[Len(chatLog')].settled
        /\ (chatLog'[Len(chatLog')].response.failed \/ ~chatLog'[Len(chatLog')].response.ok) )
      => /\ messages' = Append(messages,
                               [role |-> "assistant",
                                text |-> <<"Chatbot error: ", C18_ErrorText(chatLog'[Len(chatLog')])>>])
         /\ ~chatLoading'
    ]_vars

\* C18 witness: after the error reply to a rejected fetch a later input was
\* accepted, and its fetch, answered not ok, ended in an error reply too.
C18_Witness ==
  /\ Len(messages) = 5
  /\ messages[3] = [role |-> "assistant", text |-> <<"Chatbot error: ", "Failed to fetch">>]
  /\ messages[4].role = "user"
  /\ messages[5] = [role |-> "assistant", text |-> <<"Chatbot error: ", "Unable to fetch agents">>]
  /\ ~chatLoading

\* The positions in the history of the user messages the router fetches for.
C19_Asked ==
  LET Fetches(i) == /\ messages[i].role = "user"
                    /\ C17_HasKeyword(ToLowerCase(messages[i].text))
  IN SelectSeq([i \in 1..Len(messages) |-> i], Fetches)

\* C19: the user's message of an exchange is in the history from the moment
\* its fetch is started, and the reply comes after both: every fetch the
\* router has made is that of a user message in the history, in order, its
\* reply is in the history only if the fetch has settled, up to any point
\* of the history after the greeting there are no more replies than user
\* messages, and while a reply is awaited the history ends with the user's
\* message.
C19_UserMessageBeforeFetchAndReply ==
  /\ \A i \in 2..Len(messages) :
       Cardinality({j \in 2..i : messages[j].role = "assistant"})
         <= Cardinality({j \in 2..i : messages[j].role = "user"})
  /\ chatLoading => messages[Len(messages)].role = "user"
  /\ Len(chatLog) = Len(C19_Asked)
  /\ \A k \in 1..Len(chatLog) :
       /\ chatLog[k].endpoint
            = C17_FirstRule(ToLowerCase(messages[C19_Asked[k]].text)).endpoint
       /\ chatLog[k].settled <=> C19_Asked[k] < Len(messages)

\* C19 witness: a second exchange whose fetch is in flight: the user's
\* message is in the history, after the reply of the first exchange, and
\* its own reply is not there yet.
C19_Witness ==
  /\ chatLoading
  /\ Len(messages) = 4
  /\ messages[3].role = "assistant"
  /\ messages[4].role = "user"
  /\ Len(chatLog) = 2
  /\ chatLog[1].settled
  /\ ~chatLog[2].settled

\* The positions in the fetched list of the agents whose isActive is false.
C20_Inactive(agents) == {j \in 1..Len(agents) : ~agents[j].isActive}

\* What a reply to the fetched agents has to be: the count of the inactive
\* agents and their ids in fetched order, or the no-blocked-agents message.
C20_Reports(text, agents) ==
  LET inactive == C20_Inactive(agents)
      n == Cardinality(inactive)
  IN IF n = 0 THEN text = <<"No blocked agents right now.">>
     ELSE /\ Len(text) = 2 * n + 3
          /\ text[1] = "Blocked agents ("
          /\ text[2] = ToString(n)
          /\ text[3] = "): "
          /\ text[Len(text)] = "."
          /\ \A j \in inactive :
               LET rank == Cardinality({i \in inactive : i < j})
               IN /\ text[4 + 2 * rank] = agents[j].agentId
                  /\ rank > 0 => text[3 + 2 * rank] = ", "

\* C20: the reply to an input routed to the blocked agents, once
\* /api/agents has answered ok, reports exactly the agents whose isActive
\* is false: their number and their agentIds in fetched order, and the
\* no-blocked-agents message when there is none; agents [{x, inactive}]
\* give "Blocked agents (1): x.".
C20_BlockedReplyReportsInactiveAgents ==
  \A k \in 1..Len(chatLog) :
    ( /\ chatLog[k].endpoint = "/api/agents"
      /\ chatLog[k].settled
      /\ chatLog[k].response.ok )
    => LET reply == messages[C19_Asked[k] + 1]
           agents == chatLog[k].response.body
       IN /\ reply.role = "assistant"
          /\ C20_Reports(reply.text, agents)
          /\ agents = <<[agentId |-> "x", isActive |-> FALSE]>>
               => reply.text = <<"Blocked agents (", "1", "): ", "x", ".">>

\* C20 witness: "how many blocked agents" answered for agents
\* [{x, inactive}], and a second question answered for a list with an
\* active agent between two inactive ones.
C20_Witness ==
  /\ Len(messages) = 5
  /\ Len(chatLog) = 2
  /\ messages[2].text = <<"h", "o", "w", " ", "m", "a", "n", "y", " ", "b", "l", "o", "c", "k", "e", "d", " ", "a", "g", "e", "n", "t", "s">>
  /\ chatLog[1].response.ok
  /\ chatLog[1].response.body = <<[agentId |-> "x", isActive |-> FALSE]>>
  /\ messages[3].text = <<"Blocked agents (", "1", "): ", "x", ".">>
  /\ chatLog[2].endpoint = "/api/agents"
  /\ chatLog[2].response.ok
  /\ Len(chatLog[2].response.body) = 3
  /\ messages[5].text = <<"Blocked agents (", "2", "): ", "z", ", ", "y", ".">>

\* The keywords of the router.
C21_Keywords ==
  {<<"s", "t", "a", "t">>, <<"b", "l", "o", "c", "k", "e", "d">>, <<"k", "i", "l", "l">>, <<"r", "e", "q", "u", "e", "s", "t">>, <<"v", "i", "o", "l", "a", "t", "i", "o", "n">>}
C21_NoKeyword(text) == \A keyword \in C21_Keywords : ~Includes(ToLowerCase(text), keyword)

\* C21: an input whose lowercased text contains none of "stat", "blocked",
\* "kill", "request", "violation" is answered with the fixed help string
\* that lists the four intents, and no fetch is made for it, neither when
\* it is sent nor when it is answered.
C21_NoKeywordGetsHelpWithoutFetch ==
  [][ /\ ( /\ Len(messages') = Len(messages) + 1
           /\ messages'[Len(messages')].role = "user"
           /\ C21_NoKeyword(messages'[Len(messages')].text) )
        => Len(chatLog') = Len(chatLog)
      /\ ( /\ chatLoading
           /\ Len(messages') = Len(messages) + 1
           /\ messages'[Len(messages')].role = "assistant"
           /\ C21_NoKeyword(PendingInput) )
        => /\ Len(chatLog') = Len(chatLog)
           /\ \A k \in 1..Len(chatLog) : chatLog'[k].settled = chatLog[k].settled
           /\ messages'[Len(messages')].text =
                <<"Try asking: \"stats\", \"recent requests\", \"violations\", or \"blocked agents\".">>
    ]_vars

\* C21 witness: "hello" was answered with the help string and "Help" after
\* it, and the router has fetched nothing.
C21_Witness ==
  /\ Len(messages) = 5
  /\ messages[2].text = <<"h", "e", "l", "l", "o">>
  /\ messages[3].text =
       <<"Try asking: \"stats\", \"recent requests\", \"violations\", or \"blocked agents\".">>
  /\ messages[4].text = <<"H", "e", "l", "p">>
  /\ messages[5].role = "assistant"
  /\ chatLog = <<>>
  /\ ~chatLoading

\* ---- Spec: fetch failures, frames, loading --------------------------------

\* What the view shows, and whether it offers the operator a retry.
C22_Shows(v, isLoading, hasError, held) ==
  IF v = "requests" THEN RequestListRenders(isLoading, hasError, held)
  ELSE InsightsRenders(isLoading, held)
C22_RetryOffered(v, isLoading, hasError, held) ==
  v = "requests" /\ RequestListRenders(isLoading, hasError, held) = "error and Retry"

\* C22: when a fetch of RequestList or InsightsDashboard completes with a
\* failure after the view has loaded successfully before, the view still
\* holds what it held and still shows it, the failure is surfaced with a
\* retry affordance, and no other view's data, loading flag or error
\* changes.
C22_FailureKeepsDataAndOffersRetry ==
  [][\A v \in {"requests", "insights"} :
       ( /\ activeTab' = activeTab
         /\ data[v] # 0
         /\ \E id \in inflight[v] : inflight'[v] = inflight[v] \ {id} /\ data'[v] # id )
       => /\ data'[v] = data[v]
          /\ C22_Shows(v, loading'[v], error', data'[v]) = "data"
          /\ C22_RetryOffered(v, loading'[v], error', data'[v])
          /\ \A w \in Views \ {v} :
               /\ data'[w] = data[w]
               /\ loading'[w] = loading[w]
               /\ inflight'[w] = inflight[w]
          /\ v # "requests" => error' = error]_vars

\* C23: processing a stream event changes the refresh counter and the live
\* violation buffer only: what the views have fetched (held per view, and
\* RequestList's collection and InsightsDashboard's three pieces), their
\* fetches in flight, the star set and the chat conversation stay as they
\* are and the query router makes no fetch; while a view stays mounted what
\* it holds changes only in a step that completes one of its own fetches,
\* and then to that fetch's response.
C23_EventLeavesFetchedCopiesAlone ==
  [][ /\ processed' # processed
        => /\ UNCHANGED <<data, inflight, fetchSeq, loading, error>>
           /\ UNCHANGED <<requests, insightsStats, insightsViolations, insightsRequests>>
           /\ UNCHANGED <<starredIds, chatLoading, messages>>
           /\ Len(chatLog') = Len(chatLog)
      /\ \A v \in Views :
           (activeTab' = activeTab /\ data'[v] # data[v])
             => /\ processed' = processed
                /\ data'[v] \in inflight[v]
                /\ inflight'[v] = inflight[v] \ {data'[v]}
    ]_vars

\* C23 witness: a violation and a refreshing event have been processed while
\* the home stats view holds a response and the chat holds an exchange.
C23_Witness ==
  /\ processed = 2
  /\ Len(violations) = 1
  /\ refreshTrigger = 1
  /\ data["homeStats"] # 0
  /\ Len(messages) = 3

\* ---- SpecChat: exchanges --------------------------------------------------

\* C24: at most one chat exchange is in flight: a send while chatLoading,
\* or of an empty or whitespace-only input, changes nothing, so after the
\* greeting the conversation alternates user message, assistant message,
\* with a trailing user message exactly while its reply is awaited; every
\* user message is a non-empty trimmed text and at most one of the router's
\* fetches is unsettled.
C24_OneExchangeInFlight ==
  /\ \A i \in 2..Len(messages) :
       messages[i].role = IF i % 2 = 0 THEN "user" ELSE "assistant"
  /\ chatLoading <=> Len(messages) % 2 = 0
  /\ \A i \in 2..Len(messages) :
       messages[i].role = "user"
         => /\ messages[i].text # <<>>
            /\ messages[i].text[1] # " "
            /\ messages[i].text[Len(messages[i].text)] # " "
  /\ Cardinality({k \in 1..Len(chatLog) : ~chatLog[k].settled}) <= 1
  /\ \A k \in 1..Len(chatLog) : ~chatLog[k].settled => (chatLoading /\ k = Len(chatLog))

\* C24 witness: the second exchange is in flight, its input " stats " kept
\* as "stats"; sends attempted now, and the whitespace-only input at any
\* time, are not accepted.
C24_Witness ==
  /\ chatLoading
  /\ Len(messages) = 4
  /\ messages[2].text = <<"s", "k", "i", "l", "l">>
  /\ messages[4].text = <<"s", "t", "a", "t", "s">>
  /\ ~Accepts(Trim(<<" ", " ", " ">>), FALSE)
  /\ \A chatInput \in ChatInputs : ~Accepts(Trim(chatInput), chatLoading)

\* ---- SpecRounds ----------------------------------------------------------

\* C25: the three fetched pieces of InsightsDashboard change all or none: a
\* completed round whose three responses are ok replaces stats, violations
\* and requests by the responses of that round, a round with a response not
\* ok or a rejected fetch changes none of them; so the three pieces held
\* are always those of one round, the last one applied.
C25_AllOrNothing ==
  [][ insightsRound' # <<>>
        => LET round == insightsRound'[1]
           IN IF round.ok
              THEN /\ insightsStats' = round.response.stats
                   /\ insightsViolations' = OrEmptyList(round.response.violations)
                   /\ insightsRequests' = OrEmptyList(round.response.requests)
              ELSE /\ insightsStats' = insightsStats
                   /\ insightsViolations' = insightsViolations
                   /\ insightsRequests' = insightsRequests
    ]_vars

\* C25 witness: a round with ok stats but another response not ok has
\* completed and the view still holds the stats and the violation sample of
\* an earlier round.
C25_Witness ==
  /\ insightsRound # <<>>
  /\ ~insightsRound[1].ok
  /\ insightsRound[1].response.stats.present
  /\ insightsStats.present
  /\ insightsStats # insightsRound[1].response.stats
  /\ Len(insightsViolations) > 0
  /\ ~loading["insights"]

\* ---- SpecLoading ---------------------------------------------------------

\* C26: every load of a mounted fetch-driven view ends its loading state:
\* whenever a view is loading it is later not loading, the step in which
\* one of its fetches completes, successfully or not, leaves its loading
\* flag false, and RequestList's loading flag, once false, stays false.
C26_LoadingTerminates ==
  /\ \A v \in Views : (Mounted(v, activeTab) /\ loading[v]) ~> ~loading[v]
  /\ [][\A v \in Views :
          (\E id \in inflight[v] : inflight'[v] = inflight[v] \ {id}) => ~loading'[v]]_vars
  /\ [][~loading["requests"] => ~loading'["requests"]]_vars

\* C26 witness: RequestList has ended a failed load and has a re-fetch in
\* flight without loading again, home stats has ended a successful one.
C26_Witness ==
  /\ activeTab = "requests"
  /\ ~loading["requests"]
  /\ error
  /\ inflight["requests"] # {}
  /\ ~loading["homeStats"]
  /\ data["homeStats"] # 0

\* ---- Spec: RequestList's error flag and star set --------------------------

\* C27: RequestList's error flag reflects the fetch that completed last:
\* while the view is mounted, a step that completes one of its fetches
\* either replaces the collection by that fetch's response and clears the
\* error, or leaves the collection as it was and sets the error; no other
\* step changes the flag or the collection.
C27_ErrorReflectsLastCompletedFetch ==
  [][ activeTab' = activeTab
        => IF \E id \in inflight["requests"] :
                inflight'["requests"] = inflight["requests"] \ {id}
           THEN LET id == CHOOSE id \in inflight["requests"] :
                            inflight'["requests"] = inflight["requests"] \ {id}
                IN \/ data'["requests"] = id /\ ~error'
                   \/ data'["requests"] = data["requests"] /\ error'
           ELSE /\ error' = error
                /\ data'["requests"] = data["requests"]
    ]_vars

\* C27 witness: with no refresh since the mount, the second fetch can only
\* be the Retry offered after the first had failed; it succeeded, and the
\* error it replaced is cleared.
C27_Witness ==
  /\ activeTab = "requests"
  /\ refreshTrigger = 0
  /\ fetchSeq["requests"] = 2
  /\ data["requests"] = 2
  /\ inflight["requests"] = {}
  /\ ~error

\* ---- SpecStars -----------------------------------------------------------

\* C28: the star set is changed by toggleStar only: a step that completes a
\* fetch (the collection replaced, or the error set), changes the query,
\* the sort key or the starred-only flag, or delivers or processes a
\* stream event leaves the star set as it is; a step that changes it
\* toggles one id of a listed request and nothing else of RequestList.
C28_OnlyToggleStarChangesStars ==
  [][ /\ ( \/ requests' # requests
           \/ error' # error
           \/ loading' # loading
           \/ search' # search
           \/ sortBy' # sortBy
           \/ showStarredOnly' # showStarredOnly
           \/ delivered' # delivered
           \/ eventPending' # eventPending
           \/ refreshTrigger' # refreshTrigger
           \/ violations' # violations )
        => starredIds' = starredIds
      /\ starredIds' # starredIds
        => \E i \in 1..Len(visible) :
             /\ starredIds' \cup starredIds = (starredIds' \cap starredIds) \cup {visible[i].id}
    ]_vars

\* C28 witness: a starred request is absent from the collection fetched
\* since, after a query and a sort key were set and an event was processed.
C28_Witness ==
  /\ \E id \in starredIds : \A i \in 1..Len(requests) : requests[i].id # id
  /\ requests # <<>>
  /\ search # <<>>
  /\ sortBy # "newest"
  /\ delivered = 1
  /\ ~eventPending

\* ---- SpecBuffer: growth --------------------------------------------------

\* C29: the live violation buffer never shrinks and grows by at most one
\* per event: every step leaves its length unchanged or one more, never
\* above 8; once the length is 8 it stays 8; and the contents change only
\* in a step that processes a violation:detected event whose violation has
\* its type, description and severity.
C29_BufferNeverShrinks ==
  [][ /\ Len(violations') \in {Len(violations), Len(violations) + 1}
      /\ Len(violations') <= 8
      /\ Len(violations) = 8 => Len(violations') = 8
      /\ violations' # violations
           => /\ eventPending /\ ~eventPending'
              /\ lastEvent.type = "violation:detected"
              /\ ~Lacks(lastEvent.violation)
    ]_vars

\* C29 witness: the buffer is full, has evicted entries, and the event
\* processed last was a violation event that is not well-formed.
C29_Witness ==
  /\ Len(violations) = 8
  /\ Len(ingested) = 9
  /\ delivered = 10
  /\ ~eventPending
  /\ lastEvent.type = "violation:detected"
  /\ ~WellFormed(lastEvent.violation)

\* ---- SpecTyping ----------------------------------------------------------

\* The text of the given index, counted from 0.
C30_Text(index) == typedTexts[index + 1]
C30_IsPrefix(shown, text) ==
  Len(shown) <= Len(text) /\ \A i \in 1..Len(shown) : shown[i] = text[i]

\* One step of the landing page's typing.
C30_Step ==
  /\ started => (started' /\ UNCHANGED <<display, isDeleting, textIndex>>)
  /\ display' # display
       => \/ /\ ~isDeleting /\ ~isDeleting'
             /\ Len(display') = Len(display) + 1
             /\ SubSeq(display', 1, Len(display)) = display
          \/ /\ isDeleting /\ isDeleting'
             /\ Len(display') = Len(display) - 1
             /\ display' = SubSeq(display, 1, Len(display) - 1)
  /\ (~isDeleting /\ isDeleting')
       => display = C30_Text(textIndex) /\ display' = display
  /\ (isDeleting /\ ~isDeleting')
       => display = <<>> /\ textIndex' = (textIndex + 1) % 3
  /\ textIndex' # textIndex
       => /\ isDeleting /\ ~isDeleting'
          /\ display = <<>> /\ display' = <<>>

\* C30: the landing page's typing: textIndex is always in 0..2 and the
\* display a prefix of the text of that index; while not started the
\* display grows by one character at a time until it is the full text,
\* only then turns to deleting, shrinks by one character at a time, and
\* when it is empty textIndex advances by one modulo 3 and typing resumes;
\* once started, display, isDeleting and textIndex change no more.
C30_TypingStateMachine ==
  /\ [](textIndex \in 0..2 /\ C30_IsPrefix(display, C30_Text(textIndex)))
  /\ [][C30_Step]_vars

\* C30 witness: the dashboard was started while the third text was being
\* deleted, after the first two had been typed and deleted.
C30_Witness ==
  /\ started
  /\ textIndex = 2
  /\ isDeleting
  /\ Len(display) = 10
  /\ typingTimer = NoTimer
====
